---- MODULE Spec2Model ----
(***************************************************************************)
(* ESP32-Remote-Drive: the ESP-NOW remote controller (pairing, frame       *)
(* dispatch, peer table) and the main sketch's connection watchdog.        *)
(*                                                                         *)
(* Two revisions of ESPNowRemoteController.cpp are in the repository       *)
(* (src/unnamed/part_004 and src/unnamed/part_005); the variable rev says  *)
(* which one the build contains.  ESPNowManager and ESPNowPacket are not   *)
(* part of the sources: send, addPeer, hasPeer, findPeerIndex, the receive *)
(* callback, the timeout scan and the TLV parser follow the design         *)
(* document.                                                               *)
(***************************************************************************)
EXTENDS Integers, Sequences, FiniteSets, TLC

(***************************************************************************)
(* Bounds of the model                                                     *)
(***************************************************************************)
\* frames the radio delivers in one run of the controller specification
MaxFrames == 2
\* last value of the millisecond clock, in clock ticks
MaxTime == 2
\* the configured peer timeout (userConfig.getEspnowTimeout), in clock ticks
EspnowTimeout == 1
\* frames that arrive on top of a full inbound queue in the burst specification
MaxDrops == 1
\* the clock of the main loop: its resolution and its last tick
TickMs == 1000
MaxLoopTime == 6
\* results delivered in one iteration of loop()
MaxBatch == 2
\* entries of one frame in the codec specification
MaxEntries == 2
\* restarts followed
MaxBoots == 2
\* the motor controller's clock stops here, in steps of MotorTickMs
MaxMotorTime == 4
MotorTickMs == 100

(***************************************************************************)
(* Program constants                                                       *)
(***************************************************************************)
ESPNOW_RX_QUEUE_SIZE == 10
ESPNOW_MAX_PEERS == 1
\* DataCmd sub-commands named with their codes in part_005
JOYSTICK_X == 16
JOYSTICK_Y == 17
JOYSTICK_ALL == 19
\* error code of a rejected pairing
INVALID_MAC == 1
\* sizeof(JoystickData): int16 x, int16 y, uint8 btn, packed
JoystickDataSize == 5
ConnectionTimeoutMs == 2000
ESPNOW_MAX_PACKET_SIZE == 250
ESPNOW_MAX_DATA_SIZE == 248
COMMAND_TIMEOUT_MS == 200

\* MainCmd / DataCmd codes declared in ESPNowPacket.h
HEARTBEAT == 1
DATA_REQUEST == 2
USER_START == 3
PAIR_REQUEST == 4
PAIR_RESPONSE == 5
ACK == 6
ERROR == 7
DATA_RESPONSE == 8
ERROR_CODE == 32
\* the longest value an entry takes
MaxEntryValueLen == 246

\* the two revisions of ESPNowRemoteController.cpp
Revisions == {"part_004", "part_005"}

(***************************************************************************)
(* Addresses                                                               *)
(***************************************************************************)
\* setupConf.h defaults of the user configuration
ESPNOW_CHANNEL == 2
AUTO_SHUTDOWN == FALSE
\* ESPNOW_PEER_MAC "10:20:BA:4D:6C:E4" as a string of characters
ESPNOW_PEER_MAC ==
  <<"1","0",":","2","0",":","B","A",":","4","D",":","6","C",":","E","4">>
\* a config value that is no address
BadConfigMac == <<"1","0",":","2","0">>
\* the controller that owns the configured address, and a stranger
MasterMac == <<16, 32, 186, 77, 108, 228>>
StrangerMac == <<170, 187, 204, 221, 238, 255>>
Macs == {MasterMac, StrangerMac}

HexDigits == {"0","1","2","3","4","5","6","7","8","9","A","B","C","D","E","F"}

HexVal(c) ==
  CASE c = "0" -> 0 [] c = "1" -> 1 [] c = "2" -> 2 [] c = "3" -> 3
    [] c = "4" -> 4 [] c = "5" -> 5 [] c = "6" -> 6 [] c = "7" -> 7
    [] c = "8" -> 8 [] c = "9" -> 9 [] c = "A" -> 10 [] c = "B" -> 11
    [] c = "C" -> 12 [] c = "D" -> 13 [] c = "E" -> 14 [] c = "F" -> 15

\* stringToMac: "XX:XX:XX:XX:XX:XX" to six bytes; <<>> when it does not parse
stringToMac(str) ==
  IF /\ Len(str) = 17
     /\ \A i \in 1..17 : IF i % 3 = 0 THEN str[i] = ":" ELSE str[i] \in HexDigits
  THEN [k \in 1..6 |-> 16 * HexVal(str[3 * k - 2]) + HexVal(str[3 * k - 1])]
  ELSE <<>>

\* compareMac: memcmp of six bytes
compareMac(a, b) == \A i \in 1..6 : a[i] = b[i]

(***************************************************************************)
(* ESPNowPacket: [MainCmd][TotalLen]([SubCmd][Len][Value...])*             *)
(***************************************************************************)
RECURSIVE EntriesOk(_, _)
\* every entry from position pos on lies inside the buffer
EntriesOk(raw, pos) ==
  IF pos > Len(raw) THEN TRUE
  ELSE IF pos + 1 > Len(raw) THEN FALSE
  ELSE IF pos + 1 + raw[pos + 1] > Len(raw) THEN FALSE
  ELSE EntriesOk(raw, pos + 2 + raw[pos + 1])

RECURSIVE ParseEntries(_, _)
\* the entries from position pos on, in wire order
ParseEntries(raw, pos) ==
  IF pos > Len(raw) THEN <<>>
  ELSE <<[sub |-> raw[pos],
          data |-> SubSeq(raw, pos + 2, pos + 1 + raw[pos + 1])]>>
       \o ParseEntries(raw, pos + 2 + raw[pos + 1])

\* a faulty variant: TotalLen is not compared with the length
ParseOkIgnoresTotalLen(raw) ==
  /\ Len(raw) >= 2
  /\ EntriesOk(raw, 3)

\* parse(data, length) succeeds
ParseOk(raw) ==
  /\ Len(raw) >= 2
  /\ raw[2] = Len(raw) - 2
  /\ EntriesOk(raw, 3)

\* the packet a successful parse yields
Parse(raw) == [mainCmd |-> raw[1], entries |-> ParseEntries(raw, 3)]

\* has(subCmd)
Has(packet, sub) == \E i \in 1..Len(packet.entries) : packet.entries[i].sub = sub

\* getData(subCmd): the value of the first entry with that sub-command
GetData(packet, sub) ==
  LET i == CHOOSE k \in 1..Len(packet.entries) :
             /\ packet.entries[k].sub = sub
             /\ \A j \in 1..(k - 1) : packet.entries[j].sub # sub
  IN  packet.entries[i].data

\* two bytes, little endian, as int16
Int16LE(lo, hi) ==
  LET u == lo + 256 * hi IN IF u >= 32768 THEN u - 65536 ELSE u

\* getInt16(subCmd, out) succeeds: the entry exists and is two bytes long
GetInt16Ok(packet, sub) == Has(packet, sub) /\ Len(GetData(packet, sub)) = 2

GetInt16(packet, sub) ==
  LET d == GetData(packet, sub) IN Int16LE(d[1], d[2])

\* the (int8_t) cast applied to a joystick value
Int8Cast(v) ==
  LET u == v % 256 IN IF u >= 128 THEN u - 256 ELSE u

\* builder: begin(mainCmd) and then one addByte / addInt16 per entry
BuildPacket(mainCmd, entries) ==
  LET RECURSIVE Flat(_)
      Flat(es) == IF es = <<>> THEN <<>>
                  ELSE <<es[1].sub, Len(es[1].data)>> \o es[1].data \o Flat(Tail(es))
      body == Flat(entries)
  IN  <<mainCmd, Len(body)>> \o body

(***************************************************************************)
(* Frames the remote side transmits in the model                           *)
(***************************************************************************)
PairRequestFrame == <<PAIR_REQUEST, 0>>
HeartbeatFrame == <<HEARTBEAT, 0>>
\* begin(DATA_REQUEST).addInt16(JOYSTICK_X, 42).addInt16(JOYSTICK_Y, -17)
JoystickFrame == <<DATA_REQUEST, 8, JOYSTICK_X, 2, 42, 0, JOYSTICK_Y, 2, 239, 255>>
\* a PAIR_REQUEST whose TotalLen byte disagrees with its length
MalformedFrame == <<PAIR_REQUEST, 5>>
\* a well-formed frame the dispatcher has no branch for
AckFrame == <<ACK, 0>>
\* what the radio delivers: every frame from the configured controller,
\* a pairing attempt and joystick data from the stranger
Arrivals ==
  {<<MasterMac, PairRequestFrame>>, <<MasterMac, HeartbeatFrame>>,
   <<MasterMac, JoystickFrame>>, <<MasterMac, MalformedFrame>>,
   <<MasterMac, AckFrame>>,
   <<StrangerMac, PairRequestFrame>>, <<StrangerMac, JoystickFrame>>}

(***************************************************************************)
(* State                                                                   *)
(***************************************************************************)
VARIABLES
  rev,                \* the revision of ESPNowRemoteController.cpp in the build
  espnowPeerMac,      \* userConfig.getEspnowPeerMac()
  peers,              \* the peer table, in insertion order
  peersMutex,         \* "free", or the task that holds the peer-table lock
  rxQueue,            \* the inbound FreeRTOS queue of RxQueueItem
  droppedPackets,     \* frames the receive callback could not enqueue
  now,                \* millis()
  pc,                 \* where processRxQueue stands
  rxItem,             \* the RxQueueItem processRxQueue is working on
  scanPc,             \* where the timeout scan of update() stands
  rxLog,              \* history: every item the receive callback enqueued
  dispatched,         \* history: every item processRxQueue dequeued
  effects,            \* history: send calls, events, callbacks, motor inputs
  remoteConnected,    \* main sketch: a remote is considered connected
  lastRemoteActivity, \* main sketch: millis() of the last delivered frame
  motorLeftSpeed,     \* main sketch: -100..100
  motorRightSpeed,    \* main sketch: -100..100
  running,            \* FALSE once the battery shutdown put the chip to sleep
  loopDid,            \* history: what the latest iteration of loop() did
  pktBuf,             \* an ESPNowPacket object: its frame bytes, header included
  pktEntries,         \* history: the entries put into that packet, in order
  lastCall,           \* history: the latest builder or parser call on it
  bootPc,             \* where setup() is
  sdAvailable,        \* initializeSystem: what sdCard.begin() returned
  configSource,       \* where the configuration in use came from
  batteryOk,          \* what battery.begin() returned
  espNowOk,           \* what espNow.begin() returned
  initResult,         \* what initializeSystem() returned to setup()
  systemInitialized,
  boots,              \* history: restarts so far
  enabled,            \* MotorController::enabled
  lastCommandTime,    \* MotorController::lastCommandTime
  telemetry,          \* MotorController::telemetry
  pins,               \* the levels on IN1..IN4 and the duty on ENA, ENB
  motorHist,          \* history: the latest call, the time of the latest
                      \* command, emergency stops since that command
  userConfig,         \* the UserConfig object: its values and its dirty flag
  configStorage,      \* the stored configuration file, if any
  configDid,          \* history: the latest UserConfig call and its result
  battery,            \* the BatteryMonitor object
  powerMgr,           \* the PowerManager object
  powerDid,           \* history: what the latest battery or power call did
  logger,             \* the LogHandler object: minLevel, SD card, mutex holder
  logFiles,           \* the files under /logs: per log file, per suffix
  logTasks,           \* per task: where its log or clearAllLogs call stands
  logDid,             \* history: what the latest step of a log call did
  logCalls            \* history: log and clearAllLogs calls so far

ctrlVars == <<rev, espnowPeerMac, peers, peersMutex, rxQueue, droppedPackets,
              pc, rxItem, scanPc, rxLog, dispatched, effects>>
loopVars == <<remoteConnected, lastRemoteActivity, motorLeftSpeed,
              motorRightSpeed, running, loopDid>>
codecVars == <<pktBuf, pktEntries, lastCall>>
bootVars == <<bootPc, sdAvailable, configSource, batteryOk, espNowOk, initResult,
              systemInitialized, boots>>
motorVars == <<enabled, lastCommandTime, telemetry, pins, motorHist>>
cfgVars == <<userConfig, configStorage, configDid>>
powerVars == <<battery, powerMgr, powerDid>>
logVars == <<logger, logFiles, logTasks, logDid, logCalls>>
restVars == <<cfgVars, powerVars, logVars>>
vars == <<ctrlVars, now, loopVars, codecVars, bootVars, motorVars, restVars>>

NoItem == [mac |-> <<>>, data |-> <<>>, timestamp |-> 0]

\* the globals of Globals.cpp
GlobalsInit ==
  /\ remoteConnected = FALSE
  /\ lastRemoteActivity = 0
  /\ motorLeftSpeed = 0
  /\ motorRightSpeed = 0
  /\ running = TRUE
  /\ loopDid = [frames |-> 0, timedOut |-> FALSE]

\* a default-constructed ESPNowPacket: no frame yet
PacketInit ==
  /\ pktBuf = <<>>
  /\ pktEntries = <<>>
  /\ lastCall = [op |-> "none", ok |-> TRUE, raw |-> <<>>, reads |-> {},
                 wellFormed |-> TRUE]

\* all pins low, no duty
PinsOff == [in1 |-> FALSE, in2 |-> FALSE, in3 |-> FALSE, in4 |-> FALSE,
            enA |-> 0, enB |-> 0]

\* MotorController::MotorController()
MotorInit ==
  /\ enabled = FALSE
  /\ lastCommandTime = 0
  /\ telemetry = [leftSpeed |-> 0, rightSpeed |-> 0, leftPWM |-> 0, rightPWM |-> 0,
                  motorsEnabled |-> FALSE, lastUpdateMs |-> 0]
  /\ pins = PinsOff
  /\ motorHist = [op |-> "none", cmdAt |-> 0, stops |-> 0]

\* userConf.h: the defaults of UserConfigStruct (the numeric items are all
\* handled like espnowChannel, the flags like autoShutdownEnabled)
\* char espnowPeerMac[18]
MacBufferSize == 18
\* the character '\0' and the content of memory never written
NUL == "NUL"
Unwritten == "?"

\* strncpy(dst, src, n): the first n characters of src, filled up with NUL to
\* n characters when src is shorter; no NUL is written when src has n
\* characters or more
strncpy(dst, src, n) ==
  [i \in 1..Len(dst) |->
     IF i > n THEN dst[i] ELSE IF i <= Len(src) THEN src[i] ELSE NUL]

\* a faulty variant: the whole buffer is filled and no terminator is set
CopyMacUnterminated(buf, mac) == strncpy(buf, mac, MacBufferSize)

\* strncpy(buf, mac, sizeof(buf) - 1); buf[sizeof(buf) - 1] = '\0'
CopyMac(buf, mac) ==
  [strncpy(buf, mac, MacBufferSize - 1) EXCEPT ![MacBufferSize] = NUL]

ConfigDefaults ==
  [espnowChannel |-> ESPNOW_CHANNEL,
   espnowPeerMac |-> CopyMac([i \in 1..MacBufferSize |-> Unwritten],
                             ESPNOW_PEER_MAC),
   autoShutdownEnabled |-> AUTO_SHUTDOWN]

\* the card holds no config file; a file that is no JSON
NoConfigFile == [kind |-> "none"]
BadConfigFile == [kind |-> "garbage"]

\* UserConfig after its constructor: the values are the defaults; nothing is
\* stored yet
ConfigInit ==
  /\ userConfig = [config |-> ConfigDefaults, dirty |-> FALSE]
  /\ configStorage = NoConfigFile
  /\ configDid = [op |-> "none", result |-> TRUE]

\* history: what the latest battery or power call did, whether
\* setAutoSleepOnCritical(true) has reached an attached battery monitor, and
\* whether every powerMgr.update() call since the critical warning was
\* raised found the battery critical
NoPowerCall ==
  [op |-> "none", lowWarning |-> FALSE, currentWarning |-> FALSE,
   batteryShutdown |-> FALSE, slept |-> FALSE,
   tookOver |-> FALSE, allCritical |-> FALSE]

\* BatteryMonitor and PowerManager after their constructors; the voltage is in
\* tenths of a volt
PowerInit ==
  /\ battery = [initialized |-> FALSE, autoShutdownEnabled |-> TRUE,
                currentVoltage |-> 0, currentHigh |-> FALSE,
                lastUpdateTime |-> 0, lastWarningTime |-> 0,
                lastCurrentWarningTime |-> 0, warningActive |-> FALSE,
                criticalActive |-> FALSE, currentWarningActive |-> FALSE]
  /\ powerMgr = [initialized |-> FALSE, battery |-> FALSE,
                 autoSleepEnabled |-> FALSE, criticalWarningShown |-> FALSE,
                 criticalWarningStart |-> 0]
  /\ powerDid = NoPowerCall

\* LogLevel
LOG_DEBUG == 0
LOG_INFO == 1
LOG_WARNING == 2
LOG_ERROR == 3

LOG_MAX_FILE_SIZE == 1048576
LOG_ROTATION_KEEP == 3

\* the tasks that log, the log files, and the suffixes a file name can
\* carry: 0 is the file itself, i is "<file>.i"
LogTasks == {"main", "other"}
LogFileNames == {"battery.log", "boot.log", "connection.log", "error.log"}
Suffixes == 0..(LOG_ROTATION_KEEP + 1)

\* no file of that name; a file is [size, id], the id tells contents apart
NoFile == [size |-> 0, id |-> 0]

NoLogCall ==
  [task |-> "none", op |-> "none", level |-> 0, category |-> "none",
   file |-> "none", rotated |-> FALSE, overwrote |-> FALSE]

IdleTask == [pc |-> "idle", level |-> 0, category |-> "none"]

\* LogHandler after its constructor, no card, nothing logged
LogInit ==
  /\ logger = [minLevel |-> LOG_DEBUG, sd |-> FALSE, mutex |-> "free"]
  /\ logFiles = [f \in LogFileNames |-> [i \in Suffixes |-> NoFile]]
  /\ logTasks = [t \in LogTasks |-> IdleTask]
  /\ logDid = NoLogCall
  /\ logCalls = 0

\* the globals and the outcomes of initializeSystem before setup() has run
BootStart ==
  /\ bootPc = "setup"
  /\ sdAvailable = FALSE
  /\ configSource = "none"
  /\ batteryOk = FALSE
  /\ espNowOk = FALSE
  /\ initResult = "none"
  /\ systemInitialized = FALSE

\* after a setup() in which every begin() succeeded
BootReady ==
  /\ bootPc = "ready"
  /\ sdAvailable = TRUE
  /\ configSource = "sd"
  /\ batteryOk = TRUE
  /\ espNowOk = TRUE
  /\ initResult = "true"
  /\ systemInitialized = TRUE
  /\ boots = 0

\* the controller after construction and begin()
ControllerInit ==
  /\ peers = <<>>
  /\ peersMutex = "free"
  /\ rxQueue = <<>>
  /\ droppedPackets = 0
  /\ pc = "idle"
  /\ rxItem = NoItem
  /\ scanPc = "idle"
  /\ rxLog = <<>>
  /\ dispatched = <<>>
  /\ effects = <<>>

Init ==
  /\ rev \in Revisions
  /\ espnowPeerMac \in {ESPNOW_PEER_MAC, BadConfigMac}
  /\ now = 0
  /\ ControllerInit
  /\ GlobalsInit
  /\ PacketInit
  /\ BootReady
  /\ MotorInit
  /\ ConfigInit
  /\ PowerInit
  /\ LogInit

(***************************************************************************)
(* Peer table (ESPNowManager)                                              *)
(***************************************************************************)
\* findPeerIndex: the first record with that address; 0 when there is none
\* (the code counts from 0 and answers -1)
findPeerIndex(ps, mac) ==
  IF \E i \in 1..Len(ps) : compareMac(ps[i].mac, mac)
  THEN CHOOSE i \in 1..Len(ps) :
         /\ compareMac(ps[i].mac, mac)
         /\ \A j \in 1..(i - 1) : ~compareMac(ps[j].mac, mac)
  ELSE 0

hasPeer(ps, mac) == findPeerIndex(ps, mac) > 0

\* the record addPeer appends: not yet connected
NewPeer(mac, t) ==
  [mac |-> mac, connected |-> FALSE, lastSeen |-> t,
   packetsSent |-> 0, packetsReceived |-> 0, packetsLost |-> 0]

\* addPeer can succeed only below the configured capacity
addPeerPossible(ps) == Len(ps) < ESPNOW_MAX_PEERS

\* send(mac, packet): fails for an address the radio driver does not know,
\* and may fail in the driver
sendResults(ps, mac) == IF hasPeer(ps, mac) THEN {TRUE, FALSE} ELSE {FALSE}

\* one entry of the effects history; n is the ordinal of the frame that caused
\* it (0 for the timeout scan)
Effect(n, kind, what, mac, ok, val) ==
  [n |-> n, kind |-> kind, what |-> what, mac |-> mac, ok |-> ok, val |-> val]

(***************************************************************************)
(* ESPNowRemoteController                                                  *)
(***************************************************************************)
\* a faulty variant: every address passes the validation
isValidMasterMacAny(mac, configMac) == TRUE

\* isValidMasterMac(mac) against the configured address string
isValidMasterMac(mac, configMac) ==
  LET masterMac == stringToMac(configMac)
  IN  IF masterMac = <<>> THEN FALSE ELSE compareMac(mac, masterMac)

\* a faulty variant: the record is marked connected, lastSeen is left alone
MarkConnectedKeepsLastSeen(ps, mac, timestamp) ==
  LET index == findPeerIndex(ps, mac)
  IN  IF index > 0 THEN [ps EXCEPT ![index].connected = TRUE] ELSE ps

\* handlePairRequest, step 3, under the lock
MarkConnected(ps, mac, timestamp) ==
  LET index == findPeerIndex(ps, mac)
  IN  IF index > 0
      THEN [ps EXCEPT ![index].connected = TRUE, ![index].lastSeen = timestamp]
      ELSE ps

\* a faulty variant: the frame is not counted
TouchPeerUncounted(ps, mac, timestamp) ==
  LET index == findPeerIndex(ps, mac)
  IN  IF index > 0
      THEN [ps EXCEPT ![index].connected = TRUE, ![index].lastSeen = timestamp]
      ELSE ps

\* a faulty variant: the record is refreshed but stays disconnected
TouchPeerKeepsDisconnected(ps, mac, timestamp) ==
  LET index == findPeerIndex(ps, mac)
  IN  IF index > 0
      THEN [ps EXCEPT ![index].lastSeen = timestamp,
                      ![index].packetsReceived = @ + 1]
      ELSE ps

\* processRxQueue, "Peer aktualisieren", under the lock
TouchPeer(ps, mac, timestamp) ==
  LET index == findPeerIndex(ps, mac)
  IN  IF index > 0
      THEN [ps EXCEPT ![index].connected = TRUE,
                      ![index].lastSeen = timestamp,
                      ![index].packetsReceived = @ + 1]
      ELSE ps

\* get<T>(subCmd) answers a pointer only for an entry of sizeof(T) bytes
GetStructOk(packet, sub, size) == Has(packet, sub) /\ Len(GetData(packet, sub)) = size

\* part_004: separate JOYSTICK_X / JOYSTICK_Y go to the receive callback and
\* raise DATA_RECEIVED
JoystickEffects004(n, packet, mac) ==
  IF /\ Has(packet, JOYSTICK_X) /\ Has(packet, JOYSTICK_Y)
     /\ GetInt16Ok(packet, JOYSTICK_X) /\ GetInt16Ok(packet, JOYSTICK_Y)
  THEN LET xy == <<GetInt16(packet, JOYSTICK_X), GetInt16(packet, JOYSTICK_Y)>>
       IN  <<Effect(n, "callback", "receiveCallback", mac, TRUE, xy),
             Effect(n, "event", "DATA_RECEIVED", mac, TRUE, xy)>>
  ELSE <<>>

\* a faulty variant: the structure is taken to be six bytes (not packed)
StructFitsUnpacked(dataLen) == dataLen >= JoystickDataSize + 1

\* dataLen >= sizeof(JoystickData)
StructFits(dataLen) == dataLen >= JoystickDataSize

\* part_005, the JOYSTICK_ALL branch: the packed structure through get<T>,
\* else the manual extraction; the values go to
\* motorCtrl.processMovementInput as int8
JoystickAllEffects(n, packet, mac) ==
  LET data == GetData(packet, JOYSTICK_ALL)
      dataLen == Len(data)
  IN  IF dataLen > 0
      THEN IF StructFits(dataLen)
           THEN IF GetStructOk(packet, JOYSTICK_ALL, JoystickDataSize)
                THEN <<Effect(n, "motor", "struct", mac, TRUE,
                              <<Int8Cast(Int16LE(data[1], data[2])),
                                Int8Cast(Int16LE(data[3], data[4]))>>)>>
                ELSE <<>>
           ELSE IF dataLen >= 5
                THEN <<Effect(n, "motor", "manual", mac, TRUE,
                              <<Int8Cast(Int16LE(data[1], data[2])),
                                Int8Cast(Int16LE(data[3], data[4]))>>)>>
                ELSE <<>>
      ELSE <<>>

\* part_005, the branch without JOYSTICK_ALL: separate X and Y, both int16
JoystickSeparateEffects(n, packet, mac) ==
  IF /\ Has(packet, JOYSTICK_X) /\ Has(packet, JOYSTICK_Y)
     /\ GetInt16Ok(packet, JOYSTICK_X) /\ GetInt16Ok(packet, JOYSTICK_Y)
  THEN <<Effect(n, "motor", "separate", mac, TRUE,
                <<Int8Cast(GetInt16(packet, JOYSTICK_X)),
                  Int8Cast(GetInt16(packet, JOYSTICK_Y))>>)>>
  ELSE <<>>

\* a faulty variant: the separate entries are used next to JOYSTICK_ALL
JoystickEffects005Both(n, packet, mac) ==
  (IF Has(packet, JOYSTICK_ALL) THEN JoystickAllEffects(n, packet, mac) ELSE <<>>)
  \o JoystickSeparateEffects(n, packet, mac)

\* part_005: JOYSTICK_ALL first, separate X / Y only without it
JoystickEffects005(n, packet, mac) ==
  IF Has(packet, JOYSTICK_ALL)
  THEN JoystickAllEffects(n, packet, mac)
  ELSE JoystickSeparateEffects(n, packet, mac)

JoystickEffects(r, n, packet, mac) ==
  IF r = "part_004" THEN JoystickEffects004(n, packet, mac)
  ELSE JoystickEffects005(n, packet, mac)

(***************************************************************************)
(* The radio receive callback (ESPNowManager)                              *)
(***************************************************************************)
\* a faulty variant: a full queue gives up its oldest item for the new frame
OnDataRecvOverwrites(mac, data) ==
  LET item == [mac |-> mac, data |-> data, timestamp |-> now]
  IN  /\ IF Len(rxQueue) < ESPNOW_RX_QUEUE_SIZE
         THEN /\ rxQueue' = Append(rxQueue, item)
              /\ UNCHANGED droppedPackets
         ELSE /\ rxQueue' = Append(Tail(rxQueue), item)
              /\ droppedPackets' = droppedPackets + 1
      /\ rxLog' = Append(rxLog, item)
      /\ UNCHANGED <<rev, espnowPeerMac, peers, peersMutex, pc, rxItem, scanPc,
                     dispatched, effects, now, loopVars, codecVars, bootVars, motorVars, restVars>>

\* copies the frame, its source address and millis() into the inbound queue;
\* a full queue drops the frame and counts it, without waiting
OnDataRecv(mac, data) ==
  LET item == [mac |-> mac, data |-> data, timestamp |-> now]
  IN  /\ IF Len(rxQueue) < ESPNOW_RX_QUEUE_SIZE
         THEN /\ rxQueue' = Append(rxQueue, item)
              /\ rxLog' = Append(rxLog, item)
              /\ UNCHANGED droppedPackets
         ELSE /\ droppedPackets' = droppedPackets + 1
              /\ UNCHANGED <<rxQueue, rxLog>>
      /\ UNCHANGED <<rev, espnowPeerMac, peers, peersMutex, pc, rxItem, scanPc,
                     dispatched, effects, now, loopVars, codecVars, bootVars, motorVars, restVars>>

(***************************************************************************)
(* processRxQueue                                                          *)
(***************************************************************************)
\* a faulty variant: the newest item is taken first
xQueueReceiveNewest(q) == Len(q)

\* the position in the queue that xQueueReceive takes the item from
xQueueReceiveIndex(q) == 1

RemoveAt(q, i) == SubSeq(q, 1, i - 1) \o SubSeq(q, i + 1, Len(q))

\* entry: nothing to do with an empty queue
ProcessRxQueueEnter ==
  /\ pc = "idle"
  /\ pc' = IF Len(rxQueue) = 0 THEN "idle" ELSE "recv"
  /\ UNCHANGED <<rev, espnowPeerMac, peers, peersMutex, rxQueue, droppedPackets,
                 rxItem, scanPc, rxLog, dispatched, effects, now, loopVars, codecVars, bootVars, motorVars, restVars>>

\* a faulty variant: the loop polls the empty queue again instead of returning
RxQueueEmptySpins ==
  /\ pc = "recv"
  /\ rxQueue = <<>>
  /\ UNCHANGED vars

\* while (xQueueReceive(rxQueue, &rxItem, 0) == pdTRUE) fails: return
RxQueueEmpty ==
  /\ pc = "recv"
  /\ rxQueue = <<>>
  /\ pc' = "idle"
  /\ UNCHANGED <<rev, espnowPeerMac, peers, peersMutex, rxQueue, droppedPackets,
                 rxItem, scanPc, rxLog, dispatched, effects, now, loopVars, codecVars, bootVars, motorVars, restVars>>

\* xQueueReceive succeeds: the item leaves the queue
Dequeue ==
  /\ pc = "recv"
  /\ rxQueue # <<>>
  /\ rxItem' = rxQueue[xQueueReceiveIndex(rxQueue)]
  /\ rxQueue' = RemoveAt(rxQueue, xQueueReceiveIndex(rxQueue))
  /\ dispatched' = Append(dispatched, rxItem')

\* a faulty variant: a frame that does not parse ends processRxQueue
ParseFailReturns == "idle"

\* what the loop body does with a frame that does not parse
ParseFailNext == "recv"

\* packet.parse fails: continue
RxParseFail ==
  /\ Dequeue
  /\ ~ParseOk(rxItem'.data)
  /\ pc' = ParseFailNext
  /\ UNCHANGED <<rev, espnowPeerMac, peers, peersMutex, droppedPackets, scanPc,
                 rxLog, effects, now, loopVars, codecVars, bootVars, motorVars, restVars>>

\* the reply handlePairRequest makes to an address that fails validation
RejectEffects(n, mac, ok) == <<Effect(n, "send", "ERROR", mac, ok, <<INVALID_MAC>>)>>

\* PAIR_REQUEST, step 1 fails: send ERROR 0x01 and return
RxPairReject ==
  /\ Dequeue
  /\ ParseOk(rxItem'.data)
  /\ Parse(rxItem'.data).mainCmd = PAIR_REQUEST
  /\ ~isValidMasterMac(rxItem'.mac, espnowPeerMac)
  /\ \E ok \in sendResults(peers, rxItem'.mac) :
       effects' = effects \o RejectEffects(Len(dispatched'), rxItem'.mac, ok)
  /\ pc' = "recv"
  /\ UNCHANGED <<rev, espnowPeerMac, peers, peersMutex, droppedPackets, scanPc,
                 rxLog, now, loopVars, codecVars, bootVars, motorVars, restVars>>

\* a faulty variant: addPeer is called for every request
NeedsAddPeerAlways(ps, mac) == TRUE

\* handlePairRequest, step 2: addPeer is called only for an unknown address
NeedsAddPeer(ps, mac) == ~hasPeer(ps, mac)

\* a faulty variant: the handshake goes on after addPeer has failed
RxPairAddFailGoesOn ==
  /\ Dequeue
  /\ ParseOk(rxItem'.data)
  /\ Parse(rxItem'.data).mainCmd = PAIR_REQUEST
  /\ isValidMasterMac(rxItem'.mac, espnowPeerMac)
  /\ NeedsAddPeer(peers, rxItem'.mac)
  /\ effects' = Append(effects,
                  Effect(Len(dispatched'), "addPeer", "failed", rxItem'.mac, FALSE, <<>>))
  /\ pc' = "pair_take"
  /\ UNCHANGED <<rev, espnowPeerMac, peers, peersMutex, droppedPackets, scanPc,
                 rxLog, now, loopVars, codecVars, bootVars, motorVars, restVars>>

\* PAIR_REQUEST, step 2 fails: addPeer answers false, return
RxPairAddFail ==
  /\ Dequeue
  /\ ParseOk(rxItem'.data)
  /\ Parse(rxItem'.data).mainCmd = PAIR_REQUEST
  /\ isValidMasterMac(rxItem'.mac, espnowPeerMac)
  /\ NeedsAddPeer(peers, rxItem'.mac)
  /\ effects' = Append(effects,
                  Effect(Len(dispatched'), "addPeer", "failed", rxItem'.mac, FALSE, <<>>))
  /\ pc' = "recv"
  /\ UNCHANGED <<rev, espnowPeerMac, peers, peersMutex, droppedPackets, scanPc,
                 rxLog, now, loopVars, codecVars, bootVars, motorVars, restVars>>

\* PAIR_REQUEST, steps 1 and 2 pass: the peer is in the table
RxPairAccept ==
  /\ Dequeue
  /\ ParseOk(rxItem'.data)
  /\ Parse(rxItem'.data).mainCmd = PAIR_REQUEST
  /\ isValidMasterMac(rxItem'.mac, espnowPeerMac)
  /\ IF NeedsAddPeer(peers, rxItem'.mac)
     THEN /\ addPeerPossible(peers)
          /\ peers' = Append(peers, NewPeer(rxItem'.mac, now))
          /\ effects' = Append(effects,
                          Effect(Len(dispatched'), "addPeer", "added", rxItem'.mac,
                                 TRUE, <<>>))
     ELSE UNCHANGED <<peers, effects>>
  /\ pc' = "pair_take"
  /\ UNCHANGED <<rev, espnowPeerMac, peersMutex, droppedPackets, scanPc,
                 rxLog, now, loopVars, codecVars, bootVars, motorVars, restVars>>

\* the peer-table lock is free: xSemaphoreTake succeeds
TakeMutex(from, to) ==
  /\ pc = from
  /\ peersMutex = "free"
  /\ peersMutex' = "rx"
  /\ pc' = to
  /\ UNCHANGED <<rev, espnowPeerMac, peers, rxQueue, droppedPackets, rxItem,
                 scanPc, rxLog, dispatched, effects, now, loopVars, codecVars, bootVars, motorVars, restVars>>

\* a faulty variant: the task that gave up gives the lock back all the same
TakeMutexTimeoutGives(from, to) ==
  /\ pc = from
  /\ peersMutex # "free"
  /\ peersMutex' = "free"
  /\ pc' = to
  /\ UNCHANGED <<rev, espnowPeerMac, peers, rxQueue, droppedPackets, rxItem,
                 scanPc, rxLog, dispatched, effects, now, loopVars, codecVars, bootVars, motorVars, restVars>>

\* another task holds the lock for the whole wait: xSemaphoreTake gives up
TakeMutexTimeout(from, to) ==
  /\ pc = from
  /\ peersMutex # "free"
  /\ pc' = to
  /\ UNCHANGED <<rev, espnowPeerMac, peers, peersMutex, rxQueue, droppedPackets,
                 rxItem, scanPc, rxLog, dispatched, effects, now, loopVars, codecVars, bootVars, motorVars, restVars>>

PairTake == TakeMutex("pair_take", "pair_locked")
PairTakeTimeout == TakeMutexTimeout("pair_take", "pair_send")

\* a faulty variant: the lock is not given back before the response is sent
PairLockedKeepsLock ==
  /\ pc = "pair_locked"
  /\ peers' = MarkConnected(peers, rxItem.mac, rxItem.timestamp)
  /\ pc' = "pair_send"
  /\ UNCHANGED <<rev, espnowPeerMac, peersMutex, rxQueue, droppedPackets, rxItem,
                 scanPc, rxLog, dispatched, effects, now, loopVars, codecVars, bootVars, motorVars, restVars>>

\* step 3 under the lock, then xSemaphoreGive
PairLocked ==
  /\ pc = "pair_locked"
  /\ peers' = MarkConnected(peers, rxItem.mac, rxItem.timestamp)
  /\ peersMutex' = "free"
  /\ pc' = "pair_send"
  /\ UNCHANGED <<rev, espnowPeerMac, rxQueue, droppedPackets, rxItem, scanPc,
                 rxLog, dispatched, effects, now, loopVars, codecVars, bootVars, motorVars, restVars>>

\* a faulty variant: the event is raised whatever send returned
PairSendEffectsEventAnyway(r, n, mac, sendResult) ==
  <<Effect(n, "send", "PAIR_RESPONSE", mac, sendResult, <<>>),
    Effect(n, "event", "PEER_CONNECTED", mac, TRUE, <<>>)>>

\* steps 5 and 6: part_004 returns without the event when send fails,
\* part_005 ignores the result of send
PairSendEffects(r, n, mac, sendResult) ==
  <<Effect(n, "send", "PAIR_RESPONSE", mac, sendResult, <<>>)>>
  \o IF r = "part_004" /\ ~sendResult
     THEN <<>>
     ELSE <<Effect(n, "event", "PEER_CONNECTED", mac, TRUE, <<>>)>>

PairSend ==
  /\ pc = "pair_send"
  /\ \E sendResult \in sendResults(peers, rxItem.mac) :
       effects' = effects \o PairSendEffects(rev, Len(dispatched), rxItem.mac, sendResult)
  /\ pc' = "recv"
  /\ UNCHANGED <<rev, espnowPeerMac, peers, peersMutex, rxQueue, droppedPackets,
                 rxItem, scanPc, rxLog, dispatched, now, loopVars, codecVars, bootVars, motorVars, restVars>>

\* HEARTBEAT
RxHeartbeat ==
  /\ Dequeue
  /\ ParseOk(rxItem'.data)
  /\ Parse(rxItem'.data).mainCmd = HEARTBEAT
  /\ pc' = "hb_take"
  /\ UNCHANGED <<rev, espnowPeerMac, peers, peersMutex, droppedPackets, scanPc,
                 rxLog, effects, now, loopVars, codecVars, bootVars, motorVars, restVars>>

HeartbeatTake == TakeMutex("hb_take", "hb_locked")
HeartbeatTakeTimeout == TakeMutexTimeout("hb_take", "hb_after")

HeartbeatLocked ==
  /\ pc = "hb_locked"
  /\ peers' = TouchPeer(peers, rxItem.mac, rxItem.timestamp)
  /\ peersMutex' = "free"
  /\ pc' = "hb_after"
  /\ UNCHANGED <<rev, espnowPeerMac, rxQueue, droppedPackets, rxItem, scanPc,
                 rxLog, dispatched, effects, now, loopVars, codecVars, bootVars, motorVars, restVars>>

\* part_004 raises HEARTBEAT_RECEIVED, part_005 answers with ACK
HeartbeatEffects(r, n, mac, sendResult) ==
  IF r = "part_004"
  THEN <<Effect(n, "event", "HEARTBEAT_RECEIVED", mac, TRUE, <<>>)>>
  ELSE <<Effect(n, "send", "ACK", mac, sendResult, <<>>)>>

HeartbeatAfter ==
  /\ pc = "hb_after"
  /\ \E sendResult \in sendResults(peers, rxItem.mac) :
       effects' = effects \o HeartbeatEffects(rev, Len(dispatched), rxItem.mac, sendResult)
  /\ pc' = "recv"
  /\ UNCHANGED <<rev, espnowPeerMac, peers, peersMutex, rxQueue, droppedPackets,
                 rxItem, scanPc, rxLog, dispatched, now, loopVars, codecVars, bootVars, motorVars, restVars>>

\* USER_START / DATA_REQUEST: the joystick entries are handled before the lock
RxData ==
  /\ Dequeue
  /\ ParseOk(rxItem'.data)
  /\ Parse(rxItem'.data).mainCmd \in {USER_START, DATA_REQUEST}
  /\ effects' = effects \o JoystickEffects(rev, Len(dispatched'),
                                           Parse(rxItem'.data), rxItem'.mac)
  /\ pc' = "data_take"
  /\ UNCHANGED <<rev, espnowPeerMac, peers, peersMutex, droppedPackets, scanPc,
                 rxLog, now, loopVars, codecVars, bootVars, motorVars, restVars>>

DataTake == TakeMutex("data_take", "data_locked")
DataTakeTimeout == TakeMutexTimeout("data_take", "recv")

DataLocked ==
  /\ pc = "data_locked"
  /\ peers' = TouchPeer(peers, rxItem.mac, rxItem.timestamp)
  /\ peersMutex' = "free"
  /\ pc' = "recv"
  /\ UNCHANGED <<rev, espnowPeerMac, rxQueue, droppedPackets, rxItem, scanPc,
                 rxLog, dispatched, effects, now, loopVars, codecVars, bootVars, motorVars, restVars>>

\* any other MainCmd: no branch, next frame
RxUnhandled ==
  /\ Dequeue
  /\ ParseOk(rxItem'.data)
  /\ Parse(rxItem'.data).mainCmd \notin {PAIR_REQUEST, HEARTBEAT, USER_START, DATA_REQUEST}
  /\ pc' = "recv"
  /\ UNCHANGED <<rev, espnowPeerMac, peers, peersMutex, droppedPackets, scanPc,
                 rxLog, effects, now, loopVars, codecVars, bootVars, motorVars, restVars>>

(***************************************************************************)
(* update(): the periodic timeout scan (ESPNowManager)                     *)
(***************************************************************************)
\* a faulty variant: the scan does not look at the connected flag
TimedOutIgnoresConnected(p, t) == t - p.lastSeen > EspnowTimeout

\* a connected peer whose lastSeen predates t minus the timeout
TimedOut(p, t) == p.connected /\ t - p.lastSeen > EspnowTimeout

\* the table after the scan: timed-out peers are marked disconnected
ScanPeers(ps, t) ==
  [i \in 1..Len(ps) |->
     IF TimedOut(ps[i], t) THEN [ps[i] EXCEPT !.connected = FALSE] ELSE ps[i]]

RECURSIVE ScanEvents(_, _, _)
\* one HEARTBEAT_TIMEOUT event per peer the scan disconnects, in table order
ScanEvents(ps, t, i) ==
  IF i > Len(ps) THEN <<>>
  ELSE (IF TimedOut(ps[i], t)
        THEN <<Effect(0, "event", "HEARTBEAT_TIMEOUT", ps[i].mac, TRUE, <<>>)>>
        ELSE <<>>) \o ScanEvents(ps, t, i + 1)

\* the scan takes the peer-table lock
ScanTake ==
  /\ scanPc = "idle"
  /\ peersMutex = "free"
  /\ peersMutex' = "update"
  /\ scanPc' = "locked"
  /\ UNCHANGED <<rev, espnowPeerMac, peers, rxQueue, droppedPackets, pc, rxItem,
                 rxLog, dispatched, effects, now, loopVars, codecVars, bootVars, motorVars, restVars>>

\* the scan proper, the release of the lock, and the events
ScanLocked ==
  /\ scanPc = "locked"
  /\ peers' = ScanPeers(peers, now)
  /\ effects' = effects \o ScanEvents(peers, now, 1)
  /\ peersMutex' = "free"
  /\ scanPc' = "idle"
  /\ UNCHANGED <<rev, espnowPeerMac, rxQueue, droppedPackets, pc, rxItem,
                 rxLog, dispatched, now, loopVars, codecVars, bootVars, motorVars, restVars>>

\* millis() advances
Tick ==
  /\ now < MaxTime
  /\ now' = now + 1
  /\ UNCHANGED <<ctrlVars, loopVars, codecVars, bootVars, motorVars, restVars>>

(***************************************************************************)
(* The controller specification                                            *)
(***************************************************************************)
\* the radio delivers one of the model's frames from one of its addresses
Receive ==
  /\ Len(rxLog) + droppedPackets < MaxFrames
  /\ \E a \in Arrivals : OnDataRecv(a[1], a[2])

Next ==
  \/ Receive
  \/ ProcessRxQueueEnter
  \/ RxQueueEmpty
  \/ RxParseFail
  \/ RxPairReject
  \/ RxPairAddFail
  \/ RxPairAccept
  \/ PairTake
  \/ PairTakeTimeout
  \/ PairLocked
  \/ PairSend
  \/ RxHeartbeat
  \/ HeartbeatTake
  \/ HeartbeatTakeTimeout
  \/ HeartbeatLocked
  \/ HeartbeatAfter
  \/ RxData
  \/ DataTake
  \/ DataTakeTimeout
  \/ DataLocked
  \/ RxUnhandled
  \/ ScanTake
  \/ ScanLocked
  \/ Tick

Spec == Init /\ [][Next]_vars

(***************************************************************************)
(* Properties: pairing authorization                                       *)
(***************************************************************************)
\* the effects the step adds to the history
NewEffects == SubSeq(effects', Len(effects) + 1, Len(effects'))

\* the step dequeues a frame
Dequeues == dispatched' # dispatched

\* the step dequeues a well-formed PAIR_REQUEST whose source fails validation
RejectsPairRequest ==
  /\ Dequeues
  /\ ParseOk(rxItem'.data)
  /\ Parse(rxItem'.data).mainCmd = PAIR_REQUEST
  /\ ~isValidMasterMac(rxItem'.mac, espnowPeerMac)

\* C1: a PAIR_REQUEST from an address other than the configured one (or with
\* an unparseable configured address) adds no peer, connects no peer, sends
\* no PAIR_RESPONSE, raises no PEER_CONNECTED, and an ERROR frame with
\* ERROR_CODE = INVALID_MAC is actually delivered to the requester.
C1_RejectedWithDeliveredError ==
  [][RejectsPairRequest =>
       /\ peers' = peers
       /\ NewEffects = <<Effect(Len(dispatched'), "send", "ERROR", rxItem'.mac,
                                TRUE, <<INVALID_MAC>>)>>]_vars

\* C2: joystick input reaches the application (receive callback,
\* DATA_RECEIVED, motorCtrl.processMovementInput) only from an address that
\* is in the peer table, which holds only addresses that paired.
C2_CommandsOnlyFromPairedPeers ==
  \A i \in 1..Len(effects) :
    (effects[i].kind \in {"callback", "motor"} \/ effects[i].what = "DATA_RECEIVED")
      => hasPeer(peers, effects[i].mac)

(***************************************************************************)
(* Properties: the pairing handshake                                       *)
(***************************************************************************)
\* the number of records the table holds for an address
PeerCount(ps, mac) == Cardinality({i \in 1..Len(ps) : compareMac(ps[i].mac, mac)})

\* the record of an address that is in the table
PeerOf(ps, mac) == ps[findPeerIndex(ps, mac)]

\* the step in which handlePairRequest updates the record under the lock
PairUpdateStep == pc = "pair_locked" /\ pc' = "pair_send"

\* the step in which handlePairRequest sends the response and returns
PairFinishStep == pc = "pair_send" /\ pc' = "recv"

\* C3 as stated: after every accepted PAIR_REQUEST the table holds exactly one
\* record for the address and that record is connected.
C3_PairedPeerConnectedAfterEach ==
  [][PairFinishStep =>
       /\ PeerCount(peers', rxItem.mac) = 1
       /\ PeerOf(peers', rxItem.mac).connected]_vars

\* C3 amended: after every accepted PAIR_REQUEST the table holds exactly one
\* record for the address; every one whose peersMutex take succeeds sets that
\* record connected (a timed-out take leaves the record as it was); addPeer
\* is never called for an address already in the table.
C3_OneRecordPerAddress ==
  [][/\ \A mac \in Macs : PeerCount(peers', mac) <= 1
     /\ PairFinishStep => PeerCount(peers', rxItem.mac) = 1
     /\ PairUpdateStep =>
          /\ PeerCount(peers', rxItem.mac) = 1
          /\ PeerOf(peers', rxItem.mac).connected
     /\ (pc = "pair_take" /\ pc' = "pair_send") => peersMutex # "free"
     /\ \A i \in 1..Len(NewEffects) :
          NewEffects[i].kind = "addPeer" => ~hasPeer(peers, NewEffects[i].mac)]_vars

\* two PAIR_REQUESTs of the configured controller went through the handshake
C3_Witness ==
  /\ \E i, j \in 1..Len(effects) :
       /\ effects[i].what = "PAIR_RESPONSE" /\ effects[j].what = "PAIR_RESPONSE"
       /\ effects[i].n < effects[j].n
  /\ PeerCount(peers, MasterMac) = 1
  /\ PeerOf(peers, MasterMac).connected
  /\ pc = "recv"

\* C4 as stated: every accepted PAIR_REQUEST ends with the peer connected,
\* lastSeen equal to the receive timestamp, a PAIR_RESPONSE sent and exactly
\* one PEER_CONNECTED event raised after it; the flag is set before the send.
C4_PairRequestAlwaysCompletes ==
  [][PairFinishStep =>
       /\ PeerOf(peers, rxItem.mac).connected
       /\ PeerOf(peers', rxItem.mac).connected
       /\ PeerOf(peers', rxItem.mac).lastSeen = rxItem.timestamp
       /\ Len(NewEffects) = 2
       /\ NewEffects[1].what = "PAIR_RESPONSE" /\ NewEffects[1].mac = rxItem.mac
       /\ NewEffects[2].what = "PEER_CONNECTED" /\ NewEffects[2].mac = rxItem.mac]_vars

\* C4 amended: every accepted PAIR_REQUEST ends with a PAIR_RESPONSE send to
\* the requester.  When the peersMutex take succeeds the record is set
\* connected with lastSeen = the receive timestamp before the response is
\* sent; the update is skipped only when the take times out.  Exactly one
\* PEER_CONNECTED event follows the send when it succeeds (in part_005 also
\* when it fails); in part_004 a failed send raises no event.
C4_PairRequestOutcome ==
  [][/\ PairUpdateStep =>
          /\ PeerOf(peers', rxItem.mac).connected
          /\ PeerOf(peers', rxItem.mac).lastSeen = rxItem.timestamp
          /\ NewEffects = <<>>
     /\ (pc = "pair_take" /\ pc' = "pair_send") => peersMutex # "free"
     /\ PairFinishStep =>
          /\ isValidMasterMac(rxItem.mac, espnowPeerMac)
          /\ Len(NewEffects) >= 1
          /\ NewEffects[1].kind = "send" /\ NewEffects[1].what = "PAIR_RESPONSE"
          /\ NewEffects[1].mac = rxItem.mac
          /\ IF NewEffects[1].ok \/ rev = "part_005"
             THEN /\ Len(NewEffects) = 2
                  /\ NewEffects[2].kind = "event"
                  /\ NewEffects[2].what = "PEER_CONNECTED"
                  /\ NewEffects[2].mac = rxItem.mac
             ELSE Len(NewEffects) = 1
     /\ \A i \in 1..Len(NewEffects) :
          NewEffects[i].what \in {"PAIR_RESPONSE", "PEER_CONNECTED"} => PairFinishStep]_vars

\* a handshake that ran to its end: record updated, response sent, event raised
C4_Witness ==
  /\ Len(effects) >= 2
  /\ effects[Len(effects) - 1].what = "PAIR_RESPONSE"
  /\ effects[Len(effects) - 1].ok
  /\ effects[Len(effects)].what = "PEER_CONNECTED"
  /\ pc = "recv"
  /\ hasPeer(peers, rxItem.mac)
  /\ PeerOf(peers, rxItem.mac).connected
  /\ PeerOf(peers, rxItem.mac).lastSeen = rxItem.timestamp
  /\ rxItem.timestamp > 0

(***************************************************************************)
(* Properties: reconnection after a timeout                                *)
(***************************************************************************)
\* the scan has disconnected this address at some time
TimedOutBefore(mac) ==
  \E i \in 1..Len(effects) :
    effects[i].what = "HEARTBEAT_TIMEOUT" /\ compareMac(effects[i].mac, mac)

\* the step sets a record connected again that the scan had disconnected
Reconnects(i) ==
  /\ ~peers[i].connected
  /\ peers'[i].connected
  /\ TimedOutBefore(peers[i].mac)

\* C5: a record the timeout scan disconnected becomes connected again only
\* through a PAIR_REQUEST that passes MAC validation; a HEARTBEAT,
\* DATA_REQUEST or USER_START frame of that address does not reconnect it.
C5_ReconnectOnlyByPairRequest ==
  [][\A i \in 1..Len(peers) :
       Reconnects(i) =>
         /\ PairUpdateStep
         /\ isValidMasterMac(rxItem.mac, espnowPeerMac)]_vars

(***************************************************************************)
(* Properties: the timeout scan                                            *)
(***************************************************************************)
\* the number of HEARTBEAT_TIMEOUT events for an address among es
TimeoutEvents(es, mac) ==
  Cardinality({k \in 1..Len(es) :
                 es[k].what = "HEARTBEAT_TIMEOUT" /\ compareMac(es[k].mac, mac)})

\* the step in which the scan works through the table
ScanStep == scanPc = "locked" /\ scanPc' = "idle"

\* C6: the scan disconnects every connected peer that has been silent for
\* longer than the timeout and raises exactly one HEARTBEAT_TIMEOUT event
\* for it; a peer that stays silent (and so stays disconnected) gets no
\* further event on later ticks, and nothing but the scan disconnects a peer.
C6_TimeoutOncePerLoss ==
  [][/\ \A i \in 1..Len(peers) :
          /\ TimeoutEvents(NewEffects, peers[i].mac) =
               (IF peers[i].connected /\ ~peers'[i].connected THEN 1 ELSE 0)
          /\ (peers[i].connected /\ ~peers'[i].connected) =>
               /\ ScanStep
               /\ now - peers[i].lastSeen > EspnowTimeout
          /\ (ScanStep /\ peers[i].connected
                /\ now - peers[i].lastSeen > EspnowTimeout) => ~peers'[i].connected
          /\ (~peers[i].connected /\ pc \notin {"pair_locked", "hb_locked", "data_locked"})
               => ~peers'[i].connected
     /\ \A k \in 1..Len(NewEffects) :
          NewEffects[k].what = "HEARTBEAT_TIMEOUT" => hasPeer(peers, NewEffects[k].mac)]_vars

\* a later scan is under way for a peer that timed out and stayed silent
C6_Witness ==
  /\ hasPeer(peers, MasterMac)
  /\ TimeoutEvents(effects, MasterMac) = 1
  /\ ~PeerOf(peers, MasterMac).connected
  /\ scanPc = "locked"
  /\ rxQueue = <<>>
  /\ pc = "idle"

(***************************************************************************)
(* Properties: the dispatcher loop                                         *)
(***************************************************************************)
\* C8: a dequeued frame that fails to parse changes no peer record, sends
\* nothing and raises nothing; processRxQueue goes on with the next queued
\* frame from the state it would be in without the malformed frame.
C8_MalformedFrameDiscarded ==
  [][(Dequeues /\ ~ParseOk(rxItem'.data)) =>
       /\ peers' = peers
       /\ peersMutex' = peersMutex
       /\ effects' = effects
       /\ droppedPackets' = droppedPackets
       /\ rxItem' = Head(rxQueue)
       /\ rxQueue' = Tail(rxQueue)
       /\ pc' = "recv"]_vars

\* a frame was handled, with effect, after a malformed one was discarded
C8_Witness ==
  \E k \in 1..Len(dispatched) :
    /\ ~ParseOk(dispatched[k].data)
    /\ \E i \in 1..Len(effects) : effects[i].n > k

\* C9: frames leave the queue in the order the receive callback put them in,
\* also while new frames arrive; every effect belongs to the frame being
\* handled, so the effects of an earlier frame precede those of a later one.
C9_FifoDispatch ==
  /\ dispatched \o rxQueue = rxLog
  /\ pc \notin {"idle", "recv"} => rxItem = dispatched[Len(dispatched)]
  /\ \A i \in 1..Len(effects) :
       effects[i].n > 0 =>
         /\ effects[i].n <= Len(dispatched)
         /\ effects[i].mac = dispatched[effects[i].n].mac
         /\ \A j \in 1..(i - 1) : effects[j].n <= effects[i].n

\* two different frames of one sender, the second enqueued while the first
\* was being handled, both with effects
C9_Witness ==
  /\ Len(dispatched) = 2
  /\ dispatched[1].mac = dispatched[2].mac
  /\ dispatched[1].data # dispatched[2].data
  /\ \E i, j \in 1..Len(effects) : effects[i].n = 1 /\ effects[j].n = 2
  /\ dispatched[2].timestamp > dispatched[1].timestamp

(***************************************************************************)
(* Properties: what a frame does to the peer table                         *)
(***************************************************************************)
\* the record as a frame received at time t leaves it
Touched(p, t) ==
  [p EXCEPT !.connected = TRUE, !.lastSeen = t, !.packetsReceived = @ + 1]

\* the step that ends the "Peer aktualisieren" part of a HEARTBEAT
HeartbeatUpdateEnds == pc \in {"hb_take", "hb_locked"} /\ pc' = "hb_after"

\* C11 as stated: a HEARTBEAT from an address in the table always leaves its
\* record with lastSeen = the receive timestamp, packetsReceived one higher
\* and connected, and changes nothing else.
C11_HeartbeatAlwaysTouchesPeer ==
  [][(HeartbeatUpdateEnds /\ hasPeer(peers, rxItem.mac)) =>
       peers' = [peers EXCEPT ![findPeerIndex(peers, rxItem.mac)] =
                                 Touched(@, rxItem.timestamp)]]_vars

\* C11 amended: a HEARTBEAT from an address in the table whose take of
\* peersMutex succeeds leaves that record with lastSeen = the receive
\* timestamp, packetsReceived one higher and connected, and changes no other
\* record and no other field; when the take times out (the lock is held
\* elsewhere) the table is left as it was.  No other step of the HEARTBEAT
\* handling writes the table.
C11_HeartbeatTouchesPeerUnderLock ==
  [][/\ (pc = "hb_locked" /\ pc' = "hb_after") =>
          /\ peersMutex = "rx"
          /\ peers' = IF hasPeer(peers, rxItem.mac)
                      THEN [peers EXCEPT ![findPeerIndex(peers, rxItem.mac)] =
                                           Touched(@, rxItem.timestamp)]
                      ELSE peers
     /\ (pc = "hb_take" /\ pc' = "hb_after") =>
          peersMutex # "free" /\ peers' = peers
     /\ (pc \in {"hb_take", "hb_after"} /\ pc' # pc) => peers' = peers
     /\ (Dequeues /\ pc' = "hb_take") => peers' = peers]_vars

\* a HEARTBEAT received after the pairing has refreshed the record
C11_Witness ==
  /\ pc = "hb_after"
  /\ hasPeer(peers, rxItem.mac)
  /\ PeerOf(peers, rxItem.mac) =
       [mac |-> rxItem.mac, connected |-> TRUE, lastSeen |-> rxItem.timestamp,
        packetsSent |-> 0, packetsReceived |-> 1, packetsLost |-> 0]
  /\ rxItem.timestamp > 0

(***************************************************************************)
(* Properties: the peer-table lock                                         *)
(***************************************************************************)
\* where processRxQueue stands between a successful take and the give
LockedSteps == {"pair_locked", "hb_locked", "data_locked"}

\* C13: processRxQueue and handlePairRequest hold peersMutex exactly while
\* they stand in a peer update: every successful take is followed by one
\* give, by the task that took it, at the end of that update; and the lock
\* is not held by them when they send, raise an event, call the receive
\* callback or the motor layer, call addPeer, or take a frame off the queue.
C13_LockOnlyAroundPeerUpdate ==
  /\ [](peersMutex = "rx" <=> pc \in LockedSteps)
  /\ [][/\ (peersMutex # "rx" /\ peersMutex' = "rx") =>
             (peersMutex = "free" /\ pc \notin LockedSteps)
        /\ (pc \in LockedSteps /\ pc' # pc) =>
             (peersMutex = "rx" /\ peersMutex' = "free")
        /\ (peersMutex = "update" /\ peersMutex' # "update") =>
             (scanPc = "locked" /\ scanPc' = "idle")
        /\ (\E i \in 1..Len(NewEffects) : NewEffects[i].n > 0) =>
             (peersMutex # "rx" /\ peersMutex' # "rx")
        /\ Dequeues => (peersMutex # "rx" /\ peersMutex' # "rx")]_vars

\* the lock is held for the update of a HEARTBEAT after a pairing whose
\* response and event went out
C13_Witness ==
  /\ peersMutex = "rx"
  /\ pc = "hb_locked"
  /\ \E i \in 1..Len(effects) : effects[i].what = "PEER_CONNECTED"

\* where processRxQueue stands before a take of the lock
TakeSteps == {"pair_take", "hb_take", "data_take"}

\* the step is a take that timed out
TakeTimesOut == pc \in TakeSteps /\ pc' \notin LockedSteps /\ pc' # pc

\* a step of processRxQueue
RxStep ==
  \/ RxQueueEmpty \/ RxParseFail \/ RxPairReject \/ RxPairAddFail \/ RxPairAccept
  \/ PairTake \/ PairTakeTimeout \/ PairLocked \/ PairSend
  \/ RxHeartbeat \/ HeartbeatTake \/ HeartbeatTakeTimeout \/ HeartbeatLocked
  \/ HeartbeatAfter
  \/ RxData \/ DataTake \/ DataTakeTimeout \/ DataLocked \/ RxUnhandled

\* C14: a take of peersMutex that times out happens only while another task
\* holds the lock; it leaves the peer table and the lock as they were, the
\* rest of that frame's handling writes no peer field, and processRxQueue
\* can always take its next step (it goes on to the next frame).
C14_LockTimeoutSkipsUpdate ==
  /\ [](pc # "idle" => ENABLED RxStep)
  /\ [][/\ TakeTimesOut =>
             /\ peersMutex = "update"
             /\ peersMutex' = peersMutex
             /\ peers' = peers
             /\ pc' = CASE pc = "pair_take" -> "pair_send"
                        [] pc = "hb_take" -> "hb_after"
                        [] pc = "data_take" -> "recv"
        /\ (pc \in {"pair_send", "hb_after"} /\ pc' # pc) =>
             (peers' = peers /\ peersMutex' = peersMutex /\ pc' = "recv")]_vars

\* the take of a pairing timed out (the record was never set connected and
\* never timed out) and processRxQueue is at the next frame
C14_Witness ==
  /\ Len(dispatched) = 2
  /\ pc \in {"hb_take", "data_take"}
  /\ \E i \in 1..Len(effects) : effects[i].what = "PAIR_RESPONSE" /\ effects[i].n = 1
  /\ \A i \in 1..Len(effects) : effects[i].what # "HEARTBEAT_TIMEOUT"
  /\ hasPeer(peers, MasterMac)
  /\ ~PeerOf(peers, MasterMac).connected

(***************************************************************************)
(* Properties: a failed addPeer                                            *)
(***************************************************************************)
\* the effect records an addPeer that answered false
AddPeerFailed(e) == e.kind = "addPeer" /\ ~e.ok

\* C15: when addPeer fails for a PAIR_REQUEST of the authorized address, the
\* peer table and the lock stay as they were, that frame causes nothing
\* else (no PAIR_RESPONSE, no PEER_CONNECTED), and processRxQueue is back at
\* its loop head; every PAIR_REQUEST of an authorized address that is not
\* in the table calls addPeer, whatever happened to earlier ones.
C15_AddPeerFailureAbortsPairing ==
  /\ [](\A i, j \in 1..Len(effects) :
          (AddPeerFailed(effects[i]) /\ effects[j].n = effects[i].n) => j = i)
  /\ [][/\ (\E i \in 1..Len(NewEffects) : AddPeerFailed(NewEffects[i])) =>
             /\ Dequeues
             /\ Len(NewEffects) = 1
             /\ peers' = peers
             /\ peersMutex' = peersMutex
             /\ pc' = "recv"
        /\ (/\ Dequeues
            /\ ParseOk(rxItem'.data)
            /\ Parse(rxItem'.data).mainCmd = PAIR_REQUEST
            /\ isValidMasterMac(rxItem'.mac, espnowPeerMac)
            /\ ~hasPeer(peers, rxItem'.mac)) =>
             /\ Len(NewEffects) = 1
             /\ NewEffects[1].kind = "addPeer"
             /\ NewEffects[1].mac = rxItem'.mac
             /\ NewEffects[1].ok <=> hasPeer(peers', rxItem'.mac)
             /\ NewEffects[1].ok <=> pc' = "pair_take"]_vars

\* addPeer failed for the first PAIR_REQUEST, the second went through
C15_Witness ==
  /\ Len(effects) >= 2
  /\ AddPeerFailed(effects[1]) /\ effects[1].n = 1
  /\ \E i \in 1..Len(effects) :
       effects[i].what = "PAIR_RESPONSE" /\ effects[i].n = 2
  /\ hasPeer(peers, MasterMac)

(***************************************************************************)
(* The command path: joystick frames of a paired controller                *)
(***************************************************************************)
\* begin(USER_START).addInt16(JOYSTICK_X, 300).addInt16(JOYSTICK_Y, -200)
WideJoystickFrame == <<USER_START, 8, JOYSTICK_X, 2, 44, 1, JOYSTICK_Y, 2, 56, 255>>
\* separate X = 42, Y = -17 behind an empty JOYSTICK_ALL entry
ShadowedJoystickFrame ==
  <<DATA_REQUEST, 10, JOYSTICK_ALL, 0, JOYSTICK_X, 2, 42, 0, JOYSTICK_Y, 2, 239, 255>>
\* JOYSTICK_ALL with the packed structure x = 42, y = -17, btn = 1
JoystickAllFrame == <<DATA_REQUEST, 7, JOYSTICK_ALL, 5, 42, 0, 239, 255, 1>>
\* JOYSTICK_ALL cut to three bytes
ShortJoystickAllFrame == <<DATA_REQUEST, 5, JOYSTICK_ALL, 3, 42, 0, 239>>

DataArrivals ==
  {<<MasterMac, JoystickFrame>>, <<MasterMac, WideJoystickFrame>>,
   <<MasterMac, ShadowedJoystickFrame>>, <<MasterMac, JoystickAllFrame>>,
   <<MasterMac, ShortJoystickAllFrame>>}

\* the controller after the configured address has paired at time 0
InitData ==
  /\ rev \in Revisions
  /\ espnowPeerMac = ESPNOW_PEER_MAC
  /\ now = 0
  /\ peers = <<[NewPeer(MasterMac, 0) EXCEPT !.connected = TRUE]>>
  /\ peersMutex = "free"
  /\ rxQueue = <<>>
  /\ droppedPackets = 0
  /\ pc = "idle"
  /\ rxItem = NoItem
  /\ scanPc = "idle"
  /\ rxLog = <<>>
  /\ dispatched = <<>>
  /\ effects = <<>>
  /\ GlobalsInit
  /\ PacketInit
  /\ BootReady
  /\ MotorInit
  /\ ConfigInit
  /\ PowerInit
  /\ LogInit

ReceiveData ==
  /\ Len(rxLog) + droppedPackets < MaxFrames
  /\ \E a \in DataArrivals : OnDataRecv(a[1], a[2])

NextData ==
  \/ ReceiveData
  \/ ProcessRxQueueEnter
  \/ RxQueueEmpty
  \/ RxData
  \/ DataTake
  \/ DataTakeTimeout
  \/ DataLocked
  \/ ScanTake
  \/ ScanLocked
  \/ Tick

SpecData == InitData /\ [][NextData]_vars

\* the effects among es that hand joystick values to the application
Deliveries(es) == SelectSeq(es, LAMBDA e : e.kind \in {"callback", "motor"})

\* the dequeued frame is a command with int16 JOYSTICK_X and JOYSTICK_Y
DequeuesXYCommand ==
  /\ Dequeues
  /\ ParseOk(rxItem'.data)
  /\ Parse(rxItem'.data).mainCmd \in {DATA_REQUEST, USER_START}
  /\ GetInt16Ok(Parse(rxItem'.data), JOYSTICK_X)
  /\ GetInt16Ok(Parse(rxItem'.data), JOYSTICK_Y)

\* C12: every command frame of a paired sender that carries int16 JOYSTICK_X
\* and JOYSTICK_Y is handed to the application exactly once, with the
\* sender's address and the values as they were encoded, and the sender's
\* lastSeen is the frame's timestamp when its handling ends; no frame is
\* handed over twice.
C12_CommandDeliveredOnce ==
  [][/\ (DequeuesXYCommand /\ hasPeer(peers, rxItem'.mac)) =>
          /\ Len(Deliveries(NewEffects)) = 1
          /\ Deliveries(NewEffects)[1].mac = rxItem'.mac
          /\ Deliveries(NewEffects)[1].val =
               <<GetInt16(Parse(rxItem'.data), JOYSTICK_X),
                 GetInt16(Parse(rxItem'.data), JOYSTICK_Y)>>
     /\ (pc \in {"data_take", "data_locked"} /\ pc' = "recv"
           /\ hasPeer(peers, rxItem.mac)) =>
          PeerOf(peers', rxItem.mac).lastSeen = rxItem.timestamp
     /\ Len(Deliveries(NewEffects)) <= 1]_vars

(***************************************************************************)
(* The receive path under a burst: the inbound queue fills up              *)
(***************************************************************************)
\* two distinguishable frames that touch neither the peer table nor the radio
BurstArrivals == {<<MasterMac, MalformedFrame>>, <<MasterMac, AckFrame>>}

ReceiveBurst ==
  /\ Len(rxLog) + droppedPackets < ESPNOW_RX_QUEUE_SIZE + MaxDrops
  /\ \E a \in BurstArrivals : OnDataRecv(a[1], a[2])

NextRx ==
  \/ ReceiveBurst
  \/ ProcessRxQueueEnter
  \/ RxQueueEmpty
  \/ RxParseFail
  \/ RxUnhandled

SpecRx == Init /\ [][NextRx]_vars

\* the step is one of the receive callback
ReceiveStep == rxLog' # rxLog \/ droppedPackets' # droppedPackets

\* C10: a frame that arrives while the inbound queue holds
\* ESPNOW_RX_QUEUE_SIZE items is dropped: the drop counter grows by exactly
\* one, the queued items keep their content and order, and the callback
\* completes without waiting for space (it can always run).  Nothing is
\* dropped while there is space, and the queue never exceeds its capacity.
C10_FullQueueDrops ==
  /\ [](Len(rxQueue) <= ESPNOW_RX_QUEUE_SIZE)
  /\ []((Len(rxLog) + droppedPackets < ESPNOW_RX_QUEUE_SIZE + MaxDrops)
          => ENABLED ReceiveBurst)
  /\ [][ReceiveStep =>
          IF Len(rxQueue) = ESPNOW_RX_QUEUE_SIZE
          THEN /\ droppedPackets' = droppedPackets + 1
               /\ rxQueue' = rxQueue
               /\ rxLog' = rxLog
               /\ pc' = pc /\ rxItem' = rxItem
          ELSE /\ droppedPackets' = droppedPackets
               /\ Len(rxQueue') = Len(rxQueue) + 1
               /\ SubSeq(rxQueue', 1, Len(rxQueue)) = rxQueue]_vars

\* a frame was dropped and the queue is still full, with both kinds of frame
C10_Witness ==
  /\ droppedPackets >= 1
  /\ Len(rxQueue) = ESPNOW_RX_QUEUE_SIZE
  /\ \E i, j \in 1..Len(rxQueue) : rxQueue[i].data # rxQueue[j].data

(***************************************************************************)
(* The main loop of the sketch: delivery of results and the watchdog       *)
(***************************************************************************)
\* millis() in milliseconds; the clock advances in steps of TickMs
Millis == now * TickMs

\* millis() - since; the clock does not wrap within the model's time
Elapsed(millis, since) == millis - since

\* a narrowing conversion to int16_t
ToInt16(v) == ((v + 32768) % 65536) - 32768

constrain(v, lo, hi) == IF v < lo THEN lo ELSE IF v > hi THEN hi ELSE v

ResultItem(cmd, hm, ml, mr, hj, jx, jy) ==
  [mainCmd |-> cmd, hasMotor |-> hm, motorLeft |-> ml, motorRight |-> mr,
   hasJoystick |-> hj, joystickX |-> jx, joystickY |-> jy]

\* what getData() hands to the loop: a heartbeat, a joystick position, a
\* joystick position whose sum leaves the int16_t range, motor speeds beyond
\* the limits
ResultItems ==
  {ResultItem(HEARTBEAT, FALSE, 0, 0, FALSE, 0, 0),
   ResultItem(DATA_REQUEST, FALSE, 0, 0, TRUE, 42, -17),
   ResultItem(DATA_REQUEST, FALSE, 0, 0, TRUE, 32767, 1),
   ResultItem(USER_START, TRUE, 150, -150, FALSE, 0, 0)}

\* the sequences of at most n results
RECURSIVE ResultBatches(_)
ResultBatches(n) ==
  IF n = 0 THEN {<<>>}
  ELSE ResultBatches(n - 1) \cup
       {Append(b, r) : b \in {x \in ResultBatches(n - 1) : Len(x) = n - 1},
                       r \in ResultItems}

\* the globals the loop and its callbacks write
Globals ==
  [remoteConnected |-> remoteConnected,
   lastRemoteActivity |-> lastRemoteActivity,
   motorLeftSpeed |-> motorLeftSpeed,
   motorRightSpeed |-> motorRightSpeed]

setMotorSpeed(g, left, right) ==
  [g EXCEPT !.motorLeftSpeed = constrain(left, -100, 100),
            !.motorRightSpeed = constrain(right, -100, 100)]

stopMotors(g) == setMotorSpeed(g, 0, 0)

\* a faulty variant: a delivered frame moves the motors but does not mark
\* the remote as connected
onESPNowDataReceivedKeepsDisconnected(g, millis, result) ==
  LET g1 == [g EXCEPT !.lastRemoteActivity = millis]
      g2 == IF result.hasMotor
            THEN setMotorSpeed(g1, result.motorLeft, result.motorRight)
            ELSE g1
      left == ToInt16(result.joystickY + result.joystickX)
      right == ToInt16(result.joystickY - result.joystickX)
      g3 == IF result.hasJoystick
            THEN setMotorSpeed(g2, constrain(left, -100, 100),
                               constrain(right, -100, 100))
            ELSE g2
  IN IF result.mainCmd \in {DATA_REQUEST, USER_START} THEN g3 ELSE g1

onESPNowDataReceived(g, millis, result) ==
  LET g1 == [g EXCEPT !.lastRemoteActivity = millis,
                      !.remoteConnected = TRUE]
      g2 == IF result.hasMotor
            THEN setMotorSpeed(g1, result.motorLeft, result.motorRight)
            ELSE g1
      left == ToInt16(result.joystickY + result.joystickX)
      right == ToInt16(result.joystickY - result.joystickX)
      g3 == IF result.hasJoystick
            THEN setMotorSpeed(g2, constrain(left, -100, 100),
                               constrain(right, -100, 100))
            ELSE g2
  IN IF result.mainCmd \in {DATA_REQUEST, USER_START} THEN g3 ELSE g1

\* while (espNow.getData(&result)) onESPNowDataReceived(...)
RECURSIVE Drain(_, _, _)
Drain(g, millis, results) ==
  IF results = <<>> THEN g
  ELSE Drain(onESPNowDataReceived(g, millis, Head(results)), millis,
             Tail(results))

\* a faulty variant: the watchdog does not look at remoteConnected
ConnectionTimedOutAnyway(connected, millis, since) ==
  Elapsed(millis, since) > ConnectionTimeoutMs

\* the condition of the connection watchdog
ConnectionTimedOut(connected, millis, since) ==
  connected /\ Elapsed(millis, since) > ConnectionTimeoutMs

\* one iteration of loop(): the results are delivered, the battery monitor
\* may find the voltage critical (its callback stops the motors and puts the
\* chip to sleep for good), then the watchdog looks at the silence
loop(results, critical) ==
  /\ running
  /\ results # <<>> =>
       Millis + ConnectionTimeoutMs + TickMs <= MaxLoopTime * TickMs
  /\ LET g1 == Drain(Globals, Millis, results)
         to == ConnectionTimedOut(g1.remoteConnected, Millis,
                                  g1.lastRemoteActivity)
         g2 == IF critical THEN stopMotors(g1)
               ELSE IF to THEN [stopMotors(g1) EXCEPT !.remoteConnected = FALSE]
               ELSE g1
     IN /\ remoteConnected' = g2.remoteConnected
        /\ lastRemoteActivity' = g2.lastRemoteActivity
        /\ motorLeftSpeed' = g2.motorLeftSpeed
        /\ motorRightSpeed' = g2.motorRightSpeed
        /\ running' = ~critical
        /\ loopDid' = [frames |-> Len(results),
                       timedOut |-> ~critical /\ to]
  /\ UNCHANGED <<ctrlVars, now, codecVars, bootVars, motorVars, restVars>>

LoopIteration ==
  \E results \in ResultBatches(MaxBatch), critical \in BOOLEAN :
    loop(results, critical)

LoopTick ==
  /\ now < MaxLoopTime
  /\ now' = now + 1
  /\ UNCHANGED <<ctrlVars, loopVars, codecVars, bootVars, motorVars, restVars>>

NextLoop ==
  \/ LoopIteration
  \/ LoopTick

\* loop() is called again and again, and time passes
SpecLoop ==
  /\ Init
  /\ [][NextLoop]_vars
  /\ WF_vars(LoopIteration)
  /\ WF_vars(LoopTick)

\* the step is an iteration of loop() that reaches the watchdog
WatchdogStep == now' = now /\ running'

MotorsStopped == motorLeftSpeed = 0 /\ motorRightSpeed = 0

\* C7: an iteration of loop() that finds remoteConnected true and more than
\* 2000 ms of silence sets remoteConnected false and both motor speeds to 0
\* and warns; an iteration that finds the remote disconnected and gets no
\* frame neither stops nor warns again; and, loop() running fairly, a
\* connected remote that falls silent always leads to stopped motors.
C7_WatchdogStopsMotors ==
  /\ [][WatchdogStep =>
          /\ (remoteConnected /\ loopDid'.frames = 0
                /\ Elapsed(Millis, lastRemoteActivity) > ConnectionTimeoutMs)
             => (~remoteConnected' /\ MotorsStopped' /\ loopDid'.timedOut)
          /\ loopDid'.timedOut => (~remoteConnected' /\ MotorsStopped')
          /\ (~remoteConnected /\ loopDid'.frames = 0)
             => /\ ~loopDid'.timedOut
                /\ UNCHANGED <<remoteConnected, motorLeftSpeed,
                               motorRightSpeed>>]_vars
  /\ remoteConnected ~> (MotorsStopped /\ (~remoteConnected \/ ~running))

\* the quiet iteration after a timeout: a frame had been delivered, the
\* watchdog has disconnected the remote, and the latest iteration, long
\* after the last frame, did not time out again
C7_Witness ==
  /\ running
  /\ lastRemoteActivity > 0
  /\ ~remoteConnected
  /\ loopDid = [frames |-> 0, timedOut |-> FALSE]
  /\ Elapsed(Millis, lastRemoteActivity) > ConnectionTimeoutMs

(***************************************************************************)
(* The packet codec on its own: builder and parser of one ESPNowPacket     *)
(***************************************************************************)
\* n value bytes
Fill(n) == [i \in 1..n |-> i % 256]

\* the values, sub-commands and main commands the builder is called with
EntryValues == {<<>>, <<42>>, <<239, 255>>, Fill(100), Fill(246), Fill(247)}
EntrySubs == {JOYSTICK_X, ERROR_CODE}
CodecCmds == {DATA_REQUEST, ERROR}

\* begin(mainCmd): a frame without entries
begin(mainCmd) == <<mainCmd, 0>>

\* a faulty variant: every entry is accepted
addEntryOkAlways(buf, data) == TRUE

\* addEntry succeeds: the value fits an entry and the payload fits the frame
addEntryOk(buf, data) ==
  /\ Len(data) <= MaxEntryValueLen
  /\ (Len(buf) - 2) + 2 + Len(data) <= ESPNOW_MAX_DATA_SIZE

\* a faulty variant: the TotalLen byte is not brought up to date
addEntryStaleTotalLen(buf, sub, data) == buf \o <<sub, Len(data) % 256>> \o data

\* addEntry: [SubCmd][Len][Value...] is appended, TotalLen follows; both
\* length fields are one byte wide
addEntry(buf, sub, data) ==
  LET b == buf \o <<sub, Len(data) % 256>> \o data
  IN  [b EXCEPT ![2] = (Len(b) - 2) % 256]

RECURSIVE EntryReadsUnchecked(_, _)
\* a faulty variant: the length byte is read before the header is known to
\* be complete
EntryReadsUnchecked(raw, pos) ==
  IF pos > Len(raw) THEN {}
  ELSE IF pos + 1 > Len(raw) THEN {pos, pos + 1}
  ELSE IF pos + 1 + raw[pos + 1] > Len(raw) THEN {pos, pos + 1}
  ELSE (pos..(pos + 1 + raw[pos + 1]))
       \cup EntryReadsUnchecked(raw, pos + 2 + raw[pos + 1])

RECURSIVE EntryReads(_, _)
\* the positions parse reads from position pos on: an entry's length byte
\* only when the header is complete, its value only when it is inside
EntryReads(raw, pos) ==
  IF pos > Len(raw) THEN {}
  ELSE IF pos + 1 > Len(raw) THEN {pos}
  ELSE IF pos + 1 + raw[pos + 1] > Len(raw) THEN {pos, pos + 1}
  ELSE (pos..(pos + 1 + raw[pos + 1])) \cup EntryReads(raw, pos + 2 + raw[pos + 1])

\* the positions parse(raw, length) reads, counted from 1
ParseReads(raw) ==
  IF Len(raw) < 2 THEN {}
  ELSE {1, 2} \cup (IF raw[2] # Len(raw) - 2 THEN {} ELSE EntryReads(raw, 3))

RECURSIVE EntryStarts(_, _)
\* where the entries es start in a frame whose first entry starts at pos
EntryStarts(es, pos) ==
  IF es = <<>> THEN {}
  ELSE {pos} \cup EntryStarts(Tail(es), pos + 2 + Len(Head(es).data))

\* the first k bytes of a frame, with TotalLen set to what k bytes demand
Cut(buf, k) == [SubSeq(buf, 1, k) EXCEPT ![2] = k - 2]

\* the frame cut after an entry's sub-command byte, after its length byte,
\* and one byte before its end; a cut is well formed only where an entry ends
Cuts(buf, es) ==
  LET starts == EntryStarts(es, 3)
      ks == ({s : s \in starts} \cup {s + 1 : s \in starts} \cup {Len(buf) - 1})
            \cap (3..(Len(buf) - 1))
  IN  {[raw |-> Cut(buf, k), wellFormed |-> (k + 1) \in starts] : k \in ks}

\* the buffers handed to parse, each with whether it is a well-formed frame
ParseInputs ==
  {[raw |-> <<>>, wellFormed |-> FALSE],
   [raw |-> <<HEARTBEAT>>, wellFormed |-> FALSE],
   [raw |-> MalformedFrame, wellFormed |-> FALSE],
   [raw |-> JoystickFrame, wellFormed |-> TRUE]}
  \cup (IF pktBuf = <<>> THEN {}
        ELSE {[raw |-> pktBuf, wellFormed |-> TRUE],
              [raw |-> pktBuf \o <<JOYSTICK_X, 0>>, wellFormed |-> FALSE],
              [raw |-> [pktBuf EXCEPT ![2] = (pktBuf[2] + 1) % 256],
               wellFormed |-> FALSE]}
             \cup Cuts(pktBuf, pktEntries))

Call(op, ok, raw, reads, wellFormed) ==
  [op |-> op, ok |-> ok, raw |-> raw, reads |-> reads, wellFormed |-> wellFormed]

CodecBegin ==
  /\ \E c \in CodecCmds :
       /\ pktBuf' = begin(c)
       /\ lastCall' = Call("begin", TRUE, <<c>>, {}, TRUE)
  /\ pktEntries' = <<>>
  /\ UNCHANGED <<ctrlVars, now, loopVars, bootVars, motorVars, restVars>>

CodecAddEntry ==
  /\ pktBuf # <<>>
  /\ Len(pktEntries) < MaxEntries
  /\ \E sub \in EntrySubs, data \in EntryValues :
       IF addEntryOk(pktBuf, data)
       THEN /\ pktBuf' = addEntry(pktBuf, sub, data)
            /\ pktEntries' = Append(pktEntries, [sub |-> sub, data |-> data])
            /\ lastCall' = Call("addEntry", TRUE, data, {}, TRUE)
       ELSE /\ UNCHANGED <<pktBuf, pktEntries>>
            /\ lastCall' = Call("addEntry", FALSE, data, {}, TRUE)
  /\ UNCHANGED <<ctrlVars, now, loopVars, bootVars, motorVars, restVars>>

\* parse(raw, length): the packet takes the frame over only when it parses
CodecParse ==
  /\ \E in \in ParseInputs :
       /\ IF ParseOk(in.raw)
          THEN /\ pktBuf' = in.raw
               /\ pktEntries' = Parse(in.raw).entries
          ELSE UNCHANGED <<pktBuf, pktEntries>>
       /\ lastCall' = Call("parse", ParseOk(in.raw), in.raw, ParseReads(in.raw),
                           in.wellFormed)
  /\ UNCHANGED <<ctrlVars, now, loopVars, bootVars, motorVars, restVars>>

NextCodec ==
  \/ CodecBegin
  \/ CodecAddEntry
  \/ CodecParse

SpecCodec == Init /\ [][NextCodec]_vars

(***************************************************************************)
(* C16: a frame the builder produced parses back to what was built         *)
(***************************************************************************)
BuilderOps == {"begin", "addEntry"}

\* C16: after every builder call the packet's bytes parse, and parsing them
\* yields the main command given to begin and the entries added since, with
\* the same sub-commands, lengths, byte values and order; parsing the built
\* bytes leaves the packet as it was built
C16_RoundTrip ==
  /\ [](lastCall.op \in BuilderOps =>
          /\ ParseOk(pktBuf)
          /\ Parse(pktBuf).entries = pktEntries)
  /\ [][/\ lastCall'.op = "begin" => Parse(pktBuf').mainCmd = lastCall'.raw[1]
        /\ lastCall'.op = "addEntry" => Parse(pktBuf').mainCmd = Parse(pktBuf).mainCmd
        /\ (lastCall.op \in BuilderOps /\ lastCall'.op = "parse"
              /\ lastCall'.raw = pktBuf) =>
             /\ lastCall'.ok
             /\ pktBuf' = pktBuf
             /\ pktEntries' = pktEntries]_vars

\* two different entries were built, one of them 100 bytes long, and the
\* built frame was parsed back
C16_Witness ==
  /\ lastCall.op = "parse"
  /\ lastCall.ok
  /\ lastCall.raw = pktBuf
  /\ pktBuf[1] = ERROR
  /\ pktEntries = <<[sub |-> ERROR_CODE, data |-> Fill(100)],
                    [sub |-> JOYSTICK_X, data |-> <<239, 255>>]>>

(***************************************************************************)
(* C17: TotalLen is the sum of the entries' encoded sizes                  *)
(***************************************************************************)
RECURSIVE EncodedSize(_)
\* the bytes the entries take in a frame: two header bytes and the value each
EncodedSize(es) ==
  IF es = <<>> THEN 0 ELSE 2 + Len(Head(es).data) + EncodedSize(Tail(es))

\* the buffer fails the header rule: no header, or TotalLen is not the
\* length minus the header
BadTotalLen(raw) == Len(raw) < 2 \/ raw[2] # Len(raw) - 2

\* C17: after every builder call the second byte of the frame is the sum of
\* its entries' encoded sizes, which is the frame's length minus 2; parse
\* refuses every buffer that is shorter than 2 bytes or whose second byte is
\* not its length minus 2; a refused parse leaves the packet as it was
C17_TotalLenInvariant ==
  /\ [](lastCall.op \in BuilderOps =>
          /\ Len(pktBuf) >= 2
          /\ pktBuf[2] = EncodedSize(pktEntries)
          /\ pktBuf[2] = Len(pktBuf) - 2)
  /\ [][lastCall'.op = "parse" =>
          /\ BadTotalLen(lastCall'.raw) => ~lastCall'.ok
          /\ ~lastCall'.ok => pktBuf' = pktBuf /\ pktEntries' = pktEntries]_vars

\* a built frame of two entries was given to parse with a TotalLen byte one
\* too high and was refused
C17_Witness ==
  /\ lastCall.op = "parse"
  /\ ~lastCall.ok
  /\ Len(pktEntries) = 2
  /\ pktBuf[1] \in CodecCmds
  /\ lastCall.raw = [pktBuf EXCEPT ![2] = pktBuf[2] + 1]

(***************************************************************************)
(* C18: an entry that runs past the end of the buffer                      *)
(***************************************************************************)
\* the buffer passes the header rule but does not end where an entry ends
Overrun(call) == ~BadTotalLen(call.raw) /\ ~call.wellFormed

\* C18: parse refuses every buffer in which an entry runs past the end of
\* the buffer, an entry header cut after its sub-command byte included, and
\* no parse reads a position outside the bytes it was given
C18_OverrunRejectedInBounds ==
  [][lastCall'.op = "parse" =>
       /\ lastCall'.reads \subseteq 1..Len(lastCall'.raw)
       /\ Overrun(lastCall') => ~lastCall'.ok]_vars

\* a built frame cut after the sub-command byte of its second entry was
\* refused
C18_Witness ==
  /\ lastCall.op = "parse"
  /\ ~lastCall.ok
  /\ Overrun(lastCall)
  /\ Len(pktEntries) = 2
  /\ pktBuf[1] \in CodecCmds
  /\ Len(lastCall.raw) = 2 + 2 + Len(pktEntries[1].data) + 1
  /\ Len(pktEntries[1].data) = 100
  /\ lastCall.reads = 1..Len(lastCall.raw)

(***************************************************************************)
(* C19: the size caps of the builder                                       *)
(***************************************************************************)
\* the value is too long for an entry, or the entry would bring the payload
\* above what a frame carries
OverCap(buf, data) ==
  \/ Len(data) > MaxEntryValueLen
  \/ (Len(buf) - 2) + 2 + Len(data) > ESPNOW_MAX_DATA_SIZE

\* C19: addEntry fails, and leaves the frame alone, whenever the value is
\* longer than 246 bytes or the entry would bring the payload above 248
\* bytes; so a frame is never longer than 250 bytes, and its TotalLen byte
\* and its entries' length bytes hold the true lengths
C19_AddEntryCaps ==
  /\ [][lastCall'.op = "addEntry" /\ OverCap(pktBuf, lastCall'.raw) =>
          /\ ~lastCall'.ok
          /\ pktBuf' = pktBuf
          /\ pktEntries' = pktEntries]_vars
  /\ [](/\ Len(pktBuf) <= ESPNOW_MAX_PACKET_SIZE
        /\ pktBuf # <<>> =>
             /\ pktBuf[2] = Len(pktBuf) - 2
             /\ EncodedSize(pktEntries) = Len(pktBuf) - 2
             /\ \A i \in 1..Len(pktEntries) :
                  Len(pktEntries[i].data) = Len(Parse(pktBuf).entries[i].data))

\* a frame of exactly 250 bytes refused one more entry whose value was
\* short enough by itself
C19_Witness ==
  /\ lastCall.op = "addEntry"
  /\ ~lastCall.ok
  /\ Len(lastCall.raw) <= MaxEntryValueLen
  /\ Len(pktBuf) = ESPNOW_MAX_PACKET_SIZE
  /\ pktBuf[1] \in CodecCmds

(***************************************************************************)
(* Start-up: setup() and initializeSystem()                                *)
(***************************************************************************)
\* power-on: nothing has run yet
InitBoot ==
  /\ rev \in Revisions
  /\ espnowPeerMac \in {ESPNOW_PEER_MAC, BadConfigMac}
  /\ now = 0
  /\ ControllerInit
  /\ GlobalsInit
  /\ PacketInit
  /\ BootStart
  /\ boots = 0
  /\ MotorInit
  /\ ConfigInit
  /\ PowerInit
  /\ LogInit

\* setup() calls initializeSystem(): LEDs and motor pins, stopMotors()
SetupStart ==
  /\ bootPc = "setup"
  /\ bootPc' = "sd"
  /\ LET g == stopMotors(Globals)
     IN  /\ motorLeftSpeed' = g.motorLeftSpeed
         /\ motorRightSpeed' = g.motorRightSpeed
  /\ UNCHANGED <<remoteConnected, lastRemoteActivity, running, loopDid>>
  /\ UNCHANGED <<sdAvailable, configSource, batteryOk, espNowOk, initResult,
                 systemInitialized, boots>>
  /\ UNCHANGED <<ctrlVars, now, codecVars, motorVars, restVars>>

\* sdCard.begin(): without a card the log goes to the serial line only
SdBegin ==
  /\ bootPc = "sd"
  /\ \E ok \in BOOLEAN : sdAvailable' = ok
  /\ bootPc' = "config"
  /\ UNCHANGED <<configSource, batteryOk, espNowOk, initResult,
                 systemInitialized, boots>>
  /\ UNCHANGED <<ctrlVars, now, loopVars, codecVars, motorVars, restVars>>

\* userConfig.init, load: without storage or without the file the defaults
\* are used
LoadConfig ==
  /\ bootPc = "config"
  /\ \E storage \in BOOLEAN, loaded \in BOOLEAN :
       configSource' = IF sdAvailable /\ storage /\ loaded THEN "sd" ELSE "defaults"
  /\ bootPc' = "battery"
  /\ UNCHANGED <<sdAvailable, batteryOk, espNowOk, initResult,
                 systemInitialized, boots>>
  /\ UNCHANGED <<ctrlVars, now, loopVars, codecVars, motorVars, restVars>>

\* battery.begin(): a failure is logged; the shutdown callback and the
\* power manager are set up either way
BatteryBegin ==
  /\ bootPc = "battery"
  /\ \E ok \in BOOLEAN : batteryOk' = ok
  /\ bootPc' = "espnow"
  /\ UNCHANGED <<sdAvailable, configSource, espNowOk, initResult,
                 systemInitialized, boots>>
  /\ UNCHANGED <<ctrlVars, now, loopVars, codecVars, motorVars, restVars>>

\* a faulty variant: a failed espNow.begin() is logged and start-up goes on
EspNowBeginGoesOn ==
  /\ bootPc = "espnow"
  /\ \E ok \in BOOLEAN : espNowOk' = ok
  /\ initResult' = "true"
  /\ bootPc' = "init_done"
  /\ UNCHANGED <<sdAvailable, configSource, batteryOk, systemInitialized, boots>>
  /\ UNCHANGED <<ctrlVars, now, loopVars, codecVars, motorVars, restVars>>

\* espNow.begin(channel): on failure initializeSystem returns false; else
\* the settings and callbacks are applied and it returns true
EspNowBegin ==
  /\ bootPc = "espnow"
  /\ \E ok \in BOOLEAN :
       /\ espNowOk' = ok
       /\ initResult' = IF ok THEN "true" ELSE "false"
       /\ bootPc' = IF ok THEN "init_done" ELSE "init_failed"
  /\ UNCHANGED <<sdAvailable, configSource, batteryOk, systemInitialized, boots>>
  /\ UNCHANGED <<ctrlVars, now, loopVars, codecVars, motorVars, restVars>>

\* setup() after a false initializeSystem(): message, delay(5000), then
\* ESP.restart() is called
SetupFailed ==
  /\ bootPc = "init_failed"
  /\ bootPc' = "restart"
  /\ UNCHANGED <<sdAvailable, configSource, batteryOk, espNowOk, initResult,
                 systemInitialized, boots>>
  /\ UNCHANGED <<ctrlVars, now, loopVars, codecVars, motorVars, restVars>>

\* ESP.restart() does not return: the chip starts again from power-on state
Restart ==
  /\ bootPc = "restart"
  /\ boots < MaxBoots
  /\ boots' = boots + 1
  /\ bootPc' = "setup"
  /\ sdAvailable' = FALSE
  /\ configSource' = "none"
  /\ batteryOk' = FALSE
  /\ espNowOk' = FALSE
  /\ initResult' = "none"
  /\ systemInitialized' = FALSE
  /\ UNCHANGED <<ctrlVars, now, loopVars, codecVars, motorVars, restVars>>

\* setup() after a true initializeSystem()
SetupReady ==
  /\ bootPc = "init_done"
  /\ systemInitialized' = TRUE
  /\ bootPc' = "ready"
  /\ UNCHANGED <<sdAvailable, configSource, batteryOk, espNowOk, initResult, boots>>
  /\ UNCHANGED <<ctrlVars, now, loopVars, codecVars, motorVars, restVars>>

NextBoot ==
  \/ SetupStart
  \/ SdBegin
  \/ LoadConfig
  \/ BatteryBegin
  \/ EspNowBegin
  \/ SetupFailed
  \/ Restart
  \/ SetupReady

SpecBoot == InitBoot /\ [][NextBoot]_vars

(***************************************************************************)
(* C20: only a failed ESP-NOW start makes start-up fail                    *)
(***************************************************************************)
\* espNow.begin() has returned in this start-up
EspNowTried == bootPc \in {"init_failed", "init_done", "restart", "ready"}

\* C20: when espNow.begin() fails, initializeSystem returns false,
\* systemInitialized stays false and setup goes on to ESP.restart() and
\* nowhere else; initializeSystem returns false for no other reason, whatever
\* the SD card, the configuration file and the battery sensor did
C20_OnlyEspNowFailureIsFatal ==
  /\ [](EspNowTried => (initResult = "false" <=> ~espNowOk))
  /\ [](EspNowTried /\ ~espNowOk =>
          /\ ~systemInitialized
          /\ bootPc \in {"init_failed", "restart"})
  /\ [](EspNowTried /\ espNowOk => initResult = "true")
  /\ [][bootPc = "init_failed" => bootPc' \in {"init_failed", "restart"}]_vars
  /\ [](bootPc = "init_failed" => ENABLED SetupFailed)

\* a start-up failed on ESP-NOW and restarted; the next one came up without
\* SD card and with a failed battery sensor, on the default configuration
C20_Witness ==
  /\ boots = 1
  /\ bootPc = "ready"
  /\ systemInitialized
  /\ ~sdAvailable
  /\ configSource = "defaults"
  /\ ~batteryOk

(***************************************************************************)
(* MotorController: the revision with the command timeout                  *)
(***************************************************************************)
MotorMillis == now * MotorTickMs

\* the largest r with r * r <= n
Isqrt(n) == CHOOSE r \in 0..200 : r * r <= n /\ n < (r + 1) * (r + 1)

\* (int)abs(speed) for speed = v * scaleFactor, where v is y - x or y + x and
\* scaleFactor is 1, or 100 / sqrt(d2) when the deflection d2 = x*x + y*y
\* exceeds 100 * 100
SpeedMagnitude(v, d2) ==
  IF d2 > 10000 THEN Isqrt((v * v * 10000) \div d2)
  ELSE IF v < 0 THEN 0 - v ELSE v

\* Arduino map(), for a value that is not negative
map(v, inMin, inMax, outMin, outMax) ==
  ((v - inMin) * (outMax - outMin)) \div (inMax - inMin) + outMin

\* the PWM duty for a speed: 0 at rest, else 127..255
MotorPWM(v, d2) ==
  IF v = 0 THEN 0
  ELSE constrain(map(SpeedMagnitude(v, d2), 0, 100, 127, 255), 0, 255)

\* (int8_t)constrain(speed, -100, 100)
TelemetrySpeed(v, d2) ==
  LET a == constrain(SpeedMagnitude(v, d2), 0, 100)
  IN  IF v < 0 THEN 0 - a ELSE a

\* joystick inputs: at rest, straight, a turn on the spot, full deflection
MovementInputs == {<<0, 0>>, <<0, 50>>, <<-30, 0>>, <<100, 100>>}

\* MotorController::stop(): pins low, no duty, telemetry zero
stop(t, millis) ==
  [t EXCEPT !.leftSpeed = 0, !.rightSpeed = 0, !.leftPWM = 0, !.rightPWM = 0,
            !.lastUpdateMs = millis]

MotorBegin ==
  /\ telemetry' = stop(telemetry, MotorMillis)
  /\ pins' = PinsOff
  /\ lastCommandTime' = MotorMillis
  /\ motorHist' = [motorHist EXCEPT !.op = "begin"]
  /\ UNCHANGED <<enabled>>
  /\ UNCHANGED <<ctrlVars, now, loopVars, codecVars, bootVars, restVars>>

MotorEnable ==
  /\ enabled' = TRUE
  /\ telemetry' = [telemetry EXCEPT !.motorsEnabled = TRUE]
  /\ lastCommandTime' = MotorMillis
  /\ motorHist' = [motorHist EXCEPT !.op = "enable", !.cmdAt = MotorMillis]
  /\ UNCHANGED <<pins>>
  /\ UNCHANGED <<ctrlVars, now, loopVars, codecVars, bootVars, restVars>>

\* a faulty variant: the motors are left as they are
MotorDisableKeepsRunning ==
  /\ enabled' = FALSE
  /\ telemetry' = [telemetry EXCEPT !.motorsEnabled = FALSE]
  /\ motorHist' = [motorHist EXCEPT !.op = "disable"]
  /\ UNCHANGED <<lastCommandTime, pins>>
  /\ UNCHANGED <<ctrlVars, now, loopVars, codecVars, bootVars, restVars>>

MotorDisable ==
  /\ enabled' = FALSE
  /\ telemetry' = stop([telemetry EXCEPT !.motorsEnabled = FALSE], MotorMillis)
  /\ pins' = PinsOff
  /\ motorHist' = [motorHist EXCEPT !.op = "disable"]
  /\ UNCHANGED <<lastCommandTime>>
  /\ UNCHANGED <<ctrlVars, now, loopVars, codecVars, bootVars, restVars>>

MotorStop ==
  /\ telemetry' = stop(telemetry, MotorMillis)
  /\ pins' = PinsOff
  /\ motorHist' = [motorHist EXCEPT !.op = "stop"]
  /\ UNCHANGED <<enabled, lastCommandTime>>
  /\ UNCHANGED <<ctrlVars, now, loopVars, codecVars, bootVars, restVars>>

\* MotorController::processMovementInput(joystickX, joystickY)
processMovementInput(x, y) ==
  /\ IF ~enabled
     THEN /\ telemetry' = stop(telemetry, MotorMillis)
          /\ pins' = PinsOff
          /\ motorHist' = [motorHist EXCEPT !.op = "input"]
          /\ UNCHANGED <<lastCommandTime>>
     ELSE LET d2 == x * x + y * y
              left == y - x
              right == y + x
          IN  /\ lastCommandTime' = MotorMillis
              /\ pins' = [in1 |-> left >= 0, in2 |-> ~(left >= 0),
                          in3 |-> right >= 0, in4 |-> ~(right >= 0),
                          enA |-> MotorPWM(left, d2), enB |-> MotorPWM(right, d2)]
              /\ telemetry' = [telemetry EXCEPT
                                 !.leftSpeed = TelemetrySpeed(left, d2),
                                 !.rightSpeed = TelemetrySpeed(right, d2),
                                 !.leftPWM = MotorPWM(left, d2),
                                 !.rightPWM = MotorPWM(right, d2),
                                 !.lastUpdateMs = MotorMillis]
              /\ motorHist' = [op |-> "input", cmdAt |-> MotorMillis, stops |-> 0]
  /\ UNCHANGED <<enabled>>

MotorInput ==
  /\ \E in \in MovementInputs : processMovementInput(in[1], in[2])
  /\ UNCHANGED <<ctrlVars, now, loopVars, codecVars, bootVars, restVars>>

\* a faulty variant: the stop comes only at the limit plus one more tick
CommandTimedOutLate(millis, since) == millis - since > COMMAND_TIMEOUT_MS + MotorTickMs

\* checkCommandTimeout: more than the limit since the last command
CommandTimedOut(millis, since) == millis - since > COMMAND_TIMEOUT_MS

\* MotorController::update(): checkCommandTimeout()
MotorUpdate ==
  /\ IF /\ enabled
        /\ telemetry.leftPWM > 0 \/ telemetry.rightPWM > 0
        /\ CommandTimedOut(MotorMillis, lastCommandTime)
     THEN /\ telemetry' = stop(telemetry, MotorMillis)
          /\ pins' = PinsOff
          /\ motorHist' = [motorHist EXCEPT !.op = "update", !.stops = @ + 1]
     ELSE /\ motorHist' = [motorHist EXCEPT !.op = "update"]
          /\ UNCHANGED <<telemetry, pins>>
  /\ UNCHANGED <<enabled, lastCommandTime>>
  /\ UNCHANGED <<ctrlVars, now, loopVars, codecVars, bootVars, restVars>>

MotorTick ==
  /\ now < MaxMotorTime
  /\ now' = now + 1
  /\ UNCHANGED <<ctrlVars, loopVars, codecVars, bootVars, motorVars, restVars>>

NextMotor ==
  \/ MotorBegin
  \/ MotorEnable
  \/ MotorDisable
  \/ MotorStop
  \/ MotorInput
  \/ MotorUpdate
  \/ MotorTick

SpecMotor == Init /\ [][NextMotor]_vars

(***************************************************************************)
(* C21: the joystick timeout of the motor controller                       *)
(***************************************************************************)
TelemetryZero(t) ==
  t.leftSpeed = 0 /\ t.rightSpeed = 0 /\ t.leftPWM = 0 /\ t.rightPWM = 0

MotorsRunning == telemetry.leftPWM > 0 \/ telemetry.rightPWM > 0

\* update() is called, with the motors enabled and running, more than the
\* limit after the latest command or enable
OverdueUpdate ==
  /\ motorHist'.op = "update"
  /\ now' = now
  /\ enabled
  /\ MotorsRunning
  /\ MotorMillis - motorHist.cmdAt > COMMAND_TIMEOUT_MS

\* C21: an update() more than 200 ms after the latest processMovementInput
\* or enable, with the motors enabled and running, stops both motors; between
\* two commands there is at most one such emergency stop; a
\* processMovementInput while disabled leaves the timer alone
C21_CommandTimeoutStopsOnce ==
  /\ [][OverdueUpdate =>
          /\ TelemetryZero(telemetry')
          /\ pins' = PinsOff
          /\ motorHist'.stops = motorHist.stops + 1]_vars
  /\ [](motorHist.stops <= 1)
  /\ [][motorHist'.op = "input" /\ ~enabled =>
          lastCommandTime' = lastCommandTime]_vars

\* the motors were stopped by an update() 300 ms after the latest command
C21_Witness ==
  /\ motorHist.op = "update"
  /\ motorHist.stops = 1
  /\ enabled
  /\ TelemetryZero(telemetry)
  /\ pins = PinsOff
  /\ MotorMillis - motorHist.cmdAt = COMMAND_TIMEOUT_MS + MotorTickMs

(***************************************************************************)
(* C30: a disabled motor controller has its motors stopped                 *)
(***************************************************************************)
\* C30: whenever the controller is disabled, both telemetry PWM values and
\* both telemetry speeds are 0; a processMovementInput while disabled leaves
\* every motor pin low and without duty; disable() ends with the motors
\* stopped
C30_DisabledMeansStopped ==
  /\ [](~enabled => TelemetryZero(telemetry) /\ ~telemetry.motorsEnabled)
  /\ [][motorHist'.op = "input" /\ ~enabled => pins' = PinsOff]_vars
  /\ [][motorHist'.op = "disable" =>
          /\ ~enabled'
          /\ TelemetryZero(telemetry')
          /\ pins' = PinsOff]_vars

\* the controller was enabled and commanded earlier, is disabled now, and
\* the latest call was a processMovementInput
C30_Witness ==
  /\ ~enabled
  /\ motorHist.op = "input"
  /\ motorHist.cmdAt > 0
  /\ telemetry.lastUpdateMs > motorHist.cmdAt
  /\ pins = PinsOff

(***************************************************************************)
(* C22: a frame after the timeout scan, and the two writers of a record    *)
(***************************************************************************)
\* the step that ends the "Peer aktualisieren" part of a HEARTBEAT or of a
\* command frame, with or without the lock
FrameUpdateEnds ==
  \/ pc \in {"hb_take", "hb_locked"} /\ pc' = "hb_after"
  \/ pc \in {"data_take", "data_locked"} /\ pc' = "recv"

\* the same step when the lock was obtained
FrameUpdateUnderLock == pc \in {"hb_locked", "data_locked"} /\ pc' # pc

\* the frame in hand comes from a peer the scan has disconnected
FromTimedOutPeer ==
  /\ hasPeer(peers, rxItem.mac)
  /\ ~PeerOf(peers, rxItem.mac).connected
  /\ TimedOutBefore(rxItem.mac)

\* what a writer of the table can leave of record p: the record untouched,
\* refreshed by the frame in hand, marked connected by a pairing, or
\* disconnected by the scan
WholeWrites(p) ==
  {p,
   Touched(p, rxItem.timestamp),
   [p EXCEPT !.connected = TRUE, !.lastSeen = rxItem.timestamp],
   [p EXCEPT !.connected = FALSE]}

\* C22 as stated: a HEARTBEAT or command frame of a known peer, processed
\* after the scan disconnected that peer, leaves it connected with lastSeen
\* equal to the frame's timestamp.
C22_FrameAlwaysReconnects ==
  [][FrameUpdateEnds /\ FromTimedOutPeer =>
       /\ PeerOf(peers', rxItem.mac).connected
       /\ PeerOf(peers', rxItem.mac).lastSeen = rxItem.timestamp]_vars

\* C22 amended: such a frame reconnects the peer, with lastSeen equal to its
\* timestamp, when its take of peersMutex succeeds; a record is written only
\* by the task that holds the lock, the scan writes only the connected flag,
\* and every write leaves each record whole, so the record holds what the
\* last holder of the lock wrote
C22_LastLockHolderWins ==
  [][/\ FrameUpdateUnderLock /\ FromTimedOutPeer =>
          PeerOf(peers', rxItem.mac) = Touched(PeerOf(peers, rxItem.mac),
                                               rxItem.timestamp)
     /\ (peers' # peers /\ Len(peers') = Len(peers)) =>
          \/ peersMutex = "rx" /\ pc \in LockedSteps /\ scanPc' = scanPc
          \/ peersMutex = "update" /\ scanPc = "locked" /\ pc' = pc
     /\ ScanStep =>
          \A i \in 1..Len(peers) :
            peers'[i] \in {peers[i], [peers[i] EXCEPT !.connected = FALSE]}
     /\ Len(peers') = Len(peers) =>
          \A i \in 1..Len(peers) : peers'[i] \in WholeWrites(peers[i])]_vars

\* a HEARTBEAT has reconnected a peer the scan had disconnected
C22_Witness ==
  /\ pc = "hb_after"
  /\ hasPeer(peers, rxItem.mac)
  /\ TimedOutBefore(rxItem.mac)
  /\ PeerOf(peers, rxItem.mac).connected
  /\ PeerOf(peers, rxItem.mac).lastSeen = rxItem.timestamp
  /\ PeerOf(peers, rxItem.mac).packetsReceived = 1
  /\ rxItem.timestamp > EspnowTimeout

(***************************************************************************)
(* C23: the peer table when PEER_CONNECTED is raised                       *)
(***************************************************************************)
\* the k-th effect of the step is a PEER_CONNECTED event
RaisesPeerConnected(k) ==
  NewEffects[k].kind = "event" /\ NewEffects[k].what = "PEER_CONNECTED"

\* C23 as stated: whenever PEER_CONNECTED is raised for an address, the table
\* holds a record of that address and the record is connected.
C23_EventMeansConnectedRecord ==
  [][\A k \in 1..Len(NewEffects) :
       RaisesPeerConnected(k) =>
         /\ hasPeer(peers', NewEffects[k].mac)
         /\ PeerOf(peers', NewEffects[k].mac).connected]_vars

\* C23 amended: whenever PEER_CONNECTED is raised for an address, it is the
\* authorized address, at the end of handlePairRequest, and the table holds a
\* record of it; in part_004 the PAIR_RESPONSE was sent successfully just
\* before.  The record is connected when the handler's update under the lock
\* ends; a record that is not connected when the event is due is either
\* still as addPeer made it (the take timed out) or was disconnected by the
\* timeout scan.
C23_EventMeansRecord ==
  /\ [][\A k \in 1..Len(NewEffects) :
          RaisesPeerConnected(k) =>
            /\ pc = "pair_send"
            /\ NewEffects[k].mac = rxItem.mac
            /\ isValidMasterMac(NewEffects[k].mac, espnowPeerMac)
            /\ hasPeer(peers', NewEffects[k].mac)
            /\ k = 2
            /\ NewEffects[1].what = "PAIR_RESPONSE"
            /\ rev = "part_004" => NewEffects[1].ok]_vars
  /\ [][PairUpdateStep => PeerOf(peers', rxItem.mac).connected]_vars
  /\ []((pc = "pair_send" /\ ~PeerOf(peers, rxItem.mac).connected) =>
          \/ TimedOutBefore(rxItem.mac)
          \/ PeerOf(peers, rxItem.mac) =
               NewPeer(rxItem.mac, PeerOf(peers, rxItem.mac).lastSeen))

\* PEER_CONNECTED was raised for a record that the handler could not update:
\* it is in the table, never timed out, and not connected
C23_Witness ==
  /\ pc = "recv"
  /\ Len(effects) >= 2
  /\ effects[Len(effects)].what = "PEER_CONNECTED"
  /\ effects[Len(effects)].mac = rxItem.mac
  /\ hasPeer(peers, rxItem.mac)
  /\ ~PeerOf(peers, rxItem.mac).connected
  /\ ~TimedOutBefore(rxItem.mac)

(***************************************************************************)
(* C24: only the authorized address gets a record                          *)
(***************************************************************************)
\* the frame in hand is a HEARTBEAT or a command of an address without record
UnknownSenderFrame ==
  /\ pc \in {"hb_take", "hb_locked", "hb_after", "data_take", "data_locked"}
  /\ ~hasPeer(peers, rxItem.mac)

\* the step dequeues a HEARTBEAT or a command of an address without record
DequeuesUnknownSenderFrame ==
  /\ Dequeues
  /\ pc' \in {"hb_take", "data_take"}
  /\ ~hasPeer(peers, rxItem'.mac)

\* C24: every record of the peer table has the authorized address, so the
\* table holds at most one record (none when the configured address does not
\* parse); a record is added only by the PAIR_REQUEST step that passed the
\* validation; no step of the handling of a HEARTBEAT, DATA_REQUEST or
\* USER_START frame from an address without record adds or changes a record
C24_OnlyAuthorizedRecords ==
  /\ [](/\ \A i \in 1..Len(peers) :
             peers[i].mac = MasterMac /\ espnowPeerMac = ESPNOW_PEER_MAC
        /\ Len(peers) <= 1)
  /\ [][Len(peers') # Len(peers) =>
          /\ Dequeues
          /\ pc' = "pair_take"
          /\ Parse(rxItem'.data).mainCmd = PAIR_REQUEST
          /\ rxItem'.mac = MasterMac
          /\ peers' = Append(peers, NewPeer(MasterMac, peers'[Len(peers')].lastSeen))]_vars
  /\ [][(DequeuesUnknownSenderFrame \/ (UnknownSenderFrame /\ pc' # pc)) =>
          peers' = peers]_vars

\* joystick data of the stranger has been handled while the table holds the
\* record of the authorized controller
C24_Witness ==
  /\ pc = "recv"
  /\ rxItem.mac = StrangerMac
  /\ ParseOk(rxItem.data)
  /\ Parse(rxItem.data).mainCmd = DATA_REQUEST
  /\ Len(peers) = 1
  /\ peers[1].mac = MasterMac

(***************************************************************************)
(* C25: a JOYSTICK_ALL entry shorter than the packed structure             *)
(***************************************************************************)
\* the motor inputs among effects es
MotorInputs(es) == SelectSeq(es, LAMBDA e : e.kind = "motor")

\* part_005 dequeues a command whose JOYSTICK_ALL entry is not empty and
\* shorter than the structure
DequeuesShortJoystickAll ==
  /\ rev = "part_005"
  /\ Dequeues
  /\ ParseOk(rxItem'.data)
  /\ Parse(rxItem'.data).mainCmd \in {DATA_REQUEST, USER_START}
  /\ Has(Parse(rxItem'.data), JOYSTICK_ALL)
  /\ Len(GetData(Parse(rxItem'.data), JOYSTICK_ALL)) > 0
  /\ Len(GetData(Parse(rxItem'.data), JOYSTICK_ALL)) < JoystickDataSize

DequeuesCommand005 ==
  /\ rev = "part_005"
  /\ Dequeues
  /\ ParseOk(rxItem'.data)
  /\ Parse(rxItem'.data).mainCmd \in {DATA_REQUEST, USER_START}

\* at most one motor input; none from separate entries next to JOYSTICK_ALL;
\* one from separate entries only without JOYSTICK_ALL and with int16 X and Y
OneInputAllFirst(packet, inputs) ==
  /\ Len(inputs) <= 1
  /\ Has(packet, JOYSTICK_ALL) =>
       \A k \in 1..Len(inputs) : inputs[k].what # "separate"
  /\ \A k \in 1..Len(inputs) :
       inputs[k].what = "separate" =>
         /\ ~Has(packet, JOYSTICK_ALL)
         /\ GetInt16Ok(packet, JOYSTICK_X)
         /\ GetInt16Ok(packet, JOYSTICK_Y)
  /\ (~Has(packet, JOYSTICK_ALL) /\ GetInt16Ok(packet, JOYSTICK_X)
        /\ GetInt16Ok(packet, JOYSTICK_Y)) => Len(inputs) = 1

\* the step that ends the handling of a command frame of a known peer
CommandUpdateEnds ==
  /\ rev = "part_005"
  /\ pc \in {"data_take", "data_locked"}
  /\ pc' = "recv"
  /\ hasPeer(peers, rxItem.mac)

\* C26 as stated: the rule above, and in every case the sender's lastSeen
\* and packetsReceived are updated when it is a known peer.
C26_OneInputAndAlwaysCounted ==
  [][/\ DequeuesCommand005 =>
          OneInputAllFirst(Parse(rxItem'.data), MotorInputs(NewEffects))
     /\ CommandUpdateEnds =>
          /\ PeerOf(peers', rxItem.mac).lastSeen = rxItem.timestamp
          /\ PeerOf(peers', rxItem.mac).packetsReceived =
               PeerOf(peers, rxItem.mac).packetsReceived + 1]_vars

\* C26 amended: each command frame leads to at most one motor input;
\* separate X / Y entries next to a JOYSTICK_ALL entry are ignored, also when
\* that entry is empty or too short; they are used only without JOYSTICK_ALL
\* and with both in int16 length.  Whatever the entries, the record of a known
\* sender gets the frame's timestamp and is counted when the take of
\* peersMutex succeeds, and is left alone when the take times out.
C26_OneInputCountedUnderLock ==
  [][/\ DequeuesCommand005 =>
          /\ OneInputAllFirst(Parse(rxItem'.data), MotorInputs(NewEffects))
          /\ pc' = "data_take"
     /\ (CommandUpdateEnds /\ pc = "data_locked") =>
          peers' = [peers EXCEPT ![findPeerIndex(peers, rxItem.mac)] =
                                    Touched(@, rxItem.timestamp)]
     /\ (CommandUpdateEnds /\ pc = "data_take") =>
          peersMutex # "free" /\ peers' = peers
     /\ (rev = "part_005" /\ pc \in {"data_take", "data_locked"} /\ pc' # pc) =>
          NewEffects = <<>>]_vars

\* part_005 has handled the frame with separate X and Y behind an empty
\* JOYSTICK_ALL entry: no motor input, the record refreshed and counted
C26_Witness ==
  /\ rev = "part_005"
  /\ pc = "recv"
  /\ rxItem.data = ShadowedJoystickFrame
  /\ MotorInputs(effects) = <<>>
  /\ PeerOf(peers, rxItem.mac).lastSeen = rxItem.timestamp
  /\ PeerOf(peers, rxItem.mac).packetsReceived = 1
  /\ rxItem.timestamp > 0

(***************************************************************************)
(* processRxQueue with no frame arriving during the call                   *)
(***************************************************************************)
\* the radio delivers frames only between two calls of processRxQueue
ReceiveDrain ==
  /\ pc = "idle"
  /\ Receive

NextDrain ==
  \/ ReceiveDrain
  \/ ProcessRxQueueEnter
  \/ RxStep
  \/ ScanTake
  \/ ScanLocked

\* the task that runs processRxQueue keeps running
SpecDrain == Init /\ [][NextDrain]_vars /\ WF_vars(RxStep)

(***************************************************************************)
(* C27: processRxQueue drains the queue and returns                        *)
(***************************************************************************)
\* processRxQueue returns
RxReturns == pc # "idle" /\ pc' = "idle"

\* C27: with no frame arriving during the call, processRxQueue returns; when
\* it returns the queue is empty and the frames dequeued so far are exactly
\* the frames received, each once and in order; every dequeue takes one frame
\* and hands it to one branch; with an empty queue at entry the call does
\* nothing
C27_DrainsAndReturns ==
  /\ (pc # "idle") ~> (pc = "idle")
  /\ [][RxReturns =>
          /\ rxQueue = <<>>
          /\ dispatched = rxLog
          /\ UNCHANGED <<rxQueue, dispatched, rxLog, peers, effects>>]_vars
  /\ [][Dequeues =>
          /\ dispatched' = Append(dispatched, Head(rxQueue))
          /\ rxQueue' = Tail(rxQueue)
          /\ pc = "recv"
          /\ pc' \in {"recv", "pair_take", "hb_take", "data_take"}]_vars
  /\ [][(pc = "idle" /\ pc' # "idle") =>
          /\ rxQueue # <<>>
          /\ pc' = "recv"
          /\ UNCHANGED <<rxQueue, dispatched, rxLog, peers, effects>>]_vars
  /\ [](pc # "idle" => dispatched \o rxQueue = rxLog /\ rxLog # <<>>)

\* a call has returned after taking two frames out of the queue
C27_Witness ==
  /\ pc = "idle"
  /\ Len(dispatched) = 2
  /\ dispatched = rxLog
  /\ rxQueue = <<>>
  /\ dispatched[1] # dispatched[2]

(***************************************************************************)
(* The main sketch: motor speeds and the connection flag                   *)
(***************************************************************************)
\* onESPNowConnectionChanged(connected): the flag follows the argument, a
\* lost connection stops the motors
onESPNowConnectionChanged(g, connected) ==
  LET g1 == [g EXCEPT !.remoteConnected = connected]
  IN IF ~connected THEN stopMotors(g1) ELSE g1

\* the sketch defines the handler and registers it nowhere; whoever holds it
\* may call it between two iterations of loop()
ConnectionChanged ==
  /\ running
  /\ \E connected \in BOOLEAN :
       LET g == onESPNowConnectionChanged(Globals, connected)
       IN /\ remoteConnected' = g.remoteConnected
          /\ lastRemoteActivity' = g.lastRemoteActivity
          /\ motorLeftSpeed' = g.motorLeftSpeed
          /\ motorRightSpeed' = g.motorRightSpeed
  /\ UNCHANGED <<running, loopDid>>
  /\ UNCHANGED <<ctrlVars, now, codecVars, bootVars, motorVars, restVars>>

NextSketch ==
  \/ LoopIteration
  \/ LoopTick
  \/ ConnectionChanged

\* the main sketch with its connection handler
SpecSketch == Init /\ [][NextSketch]_vars

\* the batch holds a frame that carries a command for the motors
HasCommandFrame(results) ==
  \E i \in 1..Len(results) : results[i].mainCmd \in {DATA_REQUEST, USER_START}

\* the step is an iteration of loop() that delivered a command frame
DeliversCommandFrame ==
  \E results \in ResultBatches(MaxBatch), critical \in BOOLEAN :
    HasCommandFrame(results) /\ loop(results, critical)

\* C28: in the main sketch a non-zero motorLeftSpeed or motorRightSpeed
\* implies that remoteConnected is true; every step that takes
\* remoteConnected from true to false leaves both motor speeds at 0; and a
\* step after which a motor speed is non-zero and changed is an iteration of
\* loop() that delivered a DATA_REQUEST or USER_START frame.
C28_MotorsOnlyWhileConnected ==
  /\ [](~MotorsStopped => remoteConnected)
  /\ [][(remoteConnected /\ ~remoteConnected') => MotorsStopped']_vars
  /\ [][(/\ ~MotorsStopped'
          /\ <<motorLeftSpeed, motorRightSpeed>>'
               # <<motorLeftSpeed, motorRightSpeed>>)
         => DeliversCommandFrame]_vars

\* the latest iteration delivered frames and left the motors running with
\* the remote connected
C28_Witness ==
  /\ running
  /\ loopDid.frames > 0
  /\ ~loopDid.timedOut
  /\ remoteConnected
  /\ motorLeftSpeed # 0
  /\ motorRightSpeed # 0

(***************************************************************************)
(* The main sketch: joystick mixing and PWM duty                           *)
(***************************************************************************)
abs(v) == IF v < 0 THEN 0 - v ELSE v

\* uint8_t leftPWM = abs(left) * 255 / 100, for the speed setMotorSpeed has
\* just stored
PwmDuty(speed) == ((abs(speed) * 255) \div 100) % 256

\* the step is an iteration of loop() that delivered this one frame and did
\* not find the battery critical
DeliversOnly(r) == loop(<<r>>, FALSE)

\* C29: for all int16 joystick values X and Y of a delivered frame the speeds
\* applied are left = clamp(Y + X, -100, 100) and right = clamp(Y - X, -100,
\* 100) of the sums without wrap-around; after every setMotorSpeed call both
\* speeds lie in -100..100 and each PWM duty is |speed| * 255 / 100, within
\* 0..255.
C29_MixWithoutWrap ==
  /\ [][\A r \in ResultItems :
          (/\ r.mainCmd \in {DATA_REQUEST, USER_START}
           /\ r.hasJoystick
           /\ DeliversOnly(r)
           /\ ~loopDid'.timedOut)
          => /\ motorLeftSpeed'
                  = constrain(r.joystickY + r.joystickX, -100, 100)
             /\ motorRightSpeed'
                  = constrain(r.joystickY - r.joystickX, -100, 100)]_vars
  /\ [](/\ motorLeftSpeed \in -100..100
        /\ motorRightSpeed \in -100..100
        /\ PwmDuty(motorLeftSpeed) = (abs(motorLeftSpeed) * 255) \div 100
        /\ PwmDuty(motorRightSpeed) = (abs(motorRightSpeed) * 255) \div 100
        /\ PwmDuty(motorLeftSpeed) \in 0..255
        /\ PwmDuty(motorRightSpeed) \in 0..255)

(***************************************************************************)
(* BatteryMonitor and PowerManager                                         *)
(***************************************************************************)
MaxPowerTime == 3
MaxBatteryTime == 4
PowerTickMs == 5000

\* thresholds in tenths of a volt, intervals in milliseconds
VOLTAGE_ALARM_LOW == 132
VOLTAGE_SHUTDOWN == 128
VOLTAGE_CHECK_INTERVAL == 1000
LowWarningIntervalMs == 10000
CurrentWarningIntervalMs == 5000
CRITICAL_WARNING_DURATION == 5000

PowerMillis == now * PowerTickMs

\* the filtered voltage after a measurement: critical, low, good
Voltages == {125, 130, 140}

\* esp_deep_sleep_start() does not return: nothing runs afterwards
Asleep == powerDid.slept \/ powerDid.batteryShutdown

\* the record of a call; the two history flags are carried along
PowerCall(op) ==
  [NoPowerCall EXCEPT !.op = op,
                      !.tookOver = powerDid.tookOver,
                      !.allCritical = powerDid.allCritical]

setAutoShutdown(b, value) == [b EXCEPT !.autoShutdownEnabled = value]

isCritical(b) == b.currentVoltage <= VOLTAGE_SHUTDOWN

isLow(b) == b.currentVoltage <= VOLTAGE_ALARM_LOW

isCurrentHigh(b) == b.currentHigh

\* the low-battery warning is issued in this call
LowWarningDue(b, millis) ==
  /\ isLow(b)
  /\ ~b.warningActive
  /\ Elapsed(millis, b.lastWarningTime) >= LowWarningIntervalMs

\* the high-current warning is issued in this call
CurrentWarningDue(b, millis) ==
  /\ isCurrentHigh(b)
  /\ ~b.currentWarningActive
  /\ Elapsed(millis, b.lastCurrentWarningTime) >= CurrentWarningIntervalMs

\* checkWarnings(): the monitor afterwards
checkWarnings(b, millis) ==
  LET b1 == IF LowWarningDue(b, millis)
            THEN [b EXCEPT !.lastWarningTime = millis, !.warningActive = TRUE]
            ELSE b
      b2 == IF ~isLow(b1) /\ b1.warningActive
            THEN [b1 EXCEPT !.warningActive = FALSE]
            ELSE b1
      b3 == IF CurrentWarningDue(b2, millis)
            THEN [b2 EXCEPT !.lastCurrentWarningTime = millis,
                            !.currentWarningActive = TRUE]
            ELSE b2
  IN IF ~isCurrentHigh(b3) /\ b3.currentWarningActive
     THEN [b3 EXCEPT !.currentWarningActive = FALSE]
     ELSE b3

\* checkShutdown() goes into shutdown()
ShutdownDue(b) == isCritical(b) /\ ~b.criticalActive

\* battery.begin(): the stored flag is taken over, the first measurement
\* fills the filter
BatteryMonitorBegin ==
  /\ ~Asleep
  /\ ~battery.initialized
  /\ \E v \in Voltages :
       battery' = [setAutoShutdown(battery,
                                   userConfig.config.autoShutdownEnabled)
                   EXCEPT !.initialized = TRUE, !.currentVoltage = v]
  /\ powerDid' = PowerCall("batteryBegin")
  /\ UNCHANGED <<powerMgr, cfgVars>>
  /\ UNCHANGED <<ctrlVars, now, loopVars, codecVars, bootVars, motorVars, logVars>>

\* battery.update(): the stored flag is taken over at every call; at most
\* one measurement per VOLTAGE_CHECK_INTERVAL, then the warnings and, with
\* auto-shutdown enabled, the shutdown check
BatteryUpdate ==
  /\ ~Asleep
  /\ battery.initialized
  /\ LET b1 == setAutoShutdown(battery, userConfig.config.autoShutdownEnabled)
     IN IF Elapsed(PowerMillis, b1.lastUpdateTime) < VOLTAGE_CHECK_INTERVAL
        THEN /\ battery' = b1
             /\ powerDid' = PowerCall("batterySkip")
        ELSE \E v \in Voltages, high \in BOOLEAN :
               LET b2 == [b1 EXCEPT !.lastUpdateTime = PowerMillis,
                                    !.currentVoltage = v,
                                    !.currentHigh = high]
                   b3 == checkWarnings(b2, PowerMillis)
                   shut == b3.autoShutdownEnabled /\ ShutdownDue(b3)
               IN /\ battery' = IF shut
                                THEN [b3 EXCEPT !.criticalActive = TRUE]
                                ELSE b3
                  /\ powerDid' = [PowerCall("batteryUpdate") EXCEPT
                                    !.lowWarning =
                                      LowWarningDue(b2, PowerMillis),
                                    !.currentWarning =
                                      CurrentWarningDue(b2, PowerMillis),
                                    !.batteryShutdown = shut]
  /\ UNCHANGED <<powerMgr, cfgVars>>
  /\ UNCHANGED <<ctrlVars, now, loopVars, codecVars, bootVars, motorVars, logVars>>

\* powerMgr.begin(logger, batteryMon)
PowerBegin ==
  /\ ~Asleep
  /\ ~powerMgr.initialized
  /\ \E attached \in BOOLEAN :
       powerMgr' = [powerMgr EXCEPT !.initialized = TRUE, !.battery = attached]
  /\ powerDid' = PowerCall("powerBegin")
  /\ UNCHANGED <<battery, cfgVars>>
  /\ UNCHANGED <<ctrlVars, now, loopVars, codecVars, bootVars, motorVars, logVars>>

\* setAutoSleepOnCritical(enabled): enabling switches the auto-shutdown of an
\* attached battery monitor off
SetAutoSleepOnCritical ==
  /\ ~Asleep
  /\ \E value \in BOOLEAN :
       /\ powerMgr' = [powerMgr EXCEPT !.autoSleepEnabled = value]
       /\ battery' = IF value /\ powerMgr.battery
                     THEN setAutoShutdown(battery, FALSE)
                     ELSE battery
       /\ powerDid' = [PowerCall(IF value THEN "autoSleepOn"
                                           ELSE "autoSleepOff")
                       EXCEPT !.tookOver = powerDid.tookOver
                                             \/ (value /\ powerMgr.battery)]
  /\ UNCHANGED cfgVars
  /\ UNCHANGED <<ctrlVars, now, loopVars, codecVars, bootVars, motorVars, logVars>>

\* the 5 seconds of the critical warning are over
WarningExpired(p, millis) ==
  Elapsed(millis, p.criticalWarningStart) >= CRITICAL_WARNING_DURATION

\* powerMgr.update()
PowerUpdate ==
  /\ ~Asleep
  /\ IF ~powerMgr.initialized \/ ~powerMgr.autoSleepEnabled \/ ~powerMgr.battery
     THEN /\ powerMgr' = powerMgr
          /\ powerDid' = [PowerCall("powerIdle") EXCEPT
                            !.allCritical = powerDid.allCritical
                                              /\ isCritical(battery)]
     ELSE IF isCritical(battery)
     THEN IF ~powerMgr.criticalWarningShown
          THEN /\ powerMgr' = [powerMgr EXCEPT
                                 !.criticalWarningShown = TRUE,
                                 !.criticalWarningStart = PowerMillis]
               /\ powerDid' = [PowerCall("powerWarning") EXCEPT
                                 !.allCritical = TRUE]
          ELSE /\ powerMgr' = powerMgr
               /\ powerDid' = [PowerCall("powerUpdate") EXCEPT
                                 !.slept = WarningExpired(powerMgr, PowerMillis)]
     ELSE /\ powerMgr' = [powerMgr EXCEPT !.criticalWarningShown = FALSE]
          /\ powerDid' = [PowerCall("powerRecovered") EXCEPT
                            !.allCritical = FALSE]
  /\ UNCHANGED <<battery, cfgVars>>
  /\ UNCHANGED <<ctrlVars, now, loopVars, codecVars, bootVars, motorVars, logVars>>

\* powerMgr.sleep(...) called directly: nothing before begin()
PowerSleep ==
  /\ ~Asleep
  /\ powerDid' = [PowerCall("sleep") EXCEPT !.slept = powerMgr.initialized]
  /\ UNCHANGED <<battery, powerMgr, cfgVars>>
  /\ UNCHANGED <<ctrlVars, now, loopVars, codecVars, bootVars, motorVars, logVars>>

\* userConfig.setAutoShutdownEnabled(value)
SetAutoShutdownEnabled ==
  /\ ~Asleep
  /\ \E value \in BOOLEAN :
       userConfig' = [userConfig EXCEPT !.config.autoShutdownEnabled = value,
                                        !.dirty = TRUE]
  /\ configDid' = [op |-> "setAutoShutdownEnabled", result |-> TRUE]
  /\ powerDid' = PowerCall("config")
  /\ UNCHANGED <<configStorage, battery, powerMgr>>
  /\ UNCHANGED <<ctrlVars, now, loopVars, codecVars, bootVars, motorVars, logVars>>

PowerTick ==
  /\ ~Asleep
  /\ now < MaxPowerTime
  /\ now' = now + 1
  /\ powerDid' = PowerCall("tick")
  /\ UNCHANGED <<battery, powerMgr, cfgVars>>
  /\ UNCHANGED <<ctrlVars, loopVars, codecVars, bootVars, motorVars, logVars>>

\* the objects after their constructors; the controller plays no part
InitPower == InitData /\ rev = "part_005"

\* time passes while only the battery monitor is looked at
BatteryTick ==
  /\ ~Asleep
  /\ now < MaxBatteryTime
  /\ now' = now + 1
  /\ powerDid' = PowerCall("tick")
  /\ UNCHANGED <<battery, powerMgr, cfgVars>>
  /\ UNCHANGED <<ctrlVars, loopVars, codecVars, bootVars, motorVars, logVars>>

NextBattery ==
  \/ BatteryMonitorBegin
  \/ BatteryUpdate
  \/ BatteryTick

\* the battery monitor on its own, updated at any rate
SpecBattery == InitPower /\ [][NextBattery]_vars

NextPower ==
  \/ BatteryMonitorBegin
  \/ BatteryUpdate
  \/ PowerBegin
  \/ SetAutoSleepOnCritical
  \/ PowerUpdate
  \/ PowerSleep
  \/ SetAutoShutdownEnabled
  \/ PowerTick

\* battery monitor, power manager and the stored flag, called in any order
SpecPower == InitPower /\ [][NextPower]_vars

\* C31: once setAutoSleepOnCritical(true) has reached an attached battery
\* monitor, the monitor's own auto-shutdown stays disabled and no later
\* battery.update() goes into its shutdown path on a critical voltage,
\* whatever the stored autoShutdownEnabled value is.
C31_PowerManagerTakesOver ==
  powerDid.tookOver => ~powerDid.batteryShutdown

\* the step is a call of powerMgr.update()
PowerUpdateStep ==
  powerDid'.op \in {"powerIdle", "powerWarning", "powerUpdate", "powerRecovered"}

\* C32: powerMgr.update() enters sleep only when the manager is initialized,
\* auto-sleep is enabled, the critical warning was raised at least 5000 ms
\* earlier and every update() call since then found the battery critical (a
\* non-critical reading at any update() call in between restarts the
\* countdown); sleep() does nothing before begin().
C32_SleepAfterSteadyCritical ==
  /\ [][(PowerUpdateStep /\ powerDid'.slept)
        => /\ powerMgr.initialized
           /\ powerMgr.autoSleepEnabled
           /\ isCritical(battery)
           /\ powerMgr.criticalWarningShown
           /\ Elapsed(PowerMillis, powerMgr.criticalWarningStart)
                >= CRITICAL_WARNING_DURATION
           /\ powerDid.allCritical]_vars
  /\ [][(powerDid'.op = "sleep" /\ ~powerMgr.initialized)
        => (~powerDid'.slept /\ UNCHANGED <<battery, powerMgr>>)]_vars

\* the step is a battery.update() that measured
MeasureStep == powerDid'.op = "batteryUpdate"

\* C33: while the voltage stays at or below the low-voltage threshold the
\* low-battery warning is issued again every 10 seconds, and while the
\* current stays at or above its threshold the high-current warning is
\* issued again every 5 seconds.
C33_WarningsRepeat ==
  /\ [][(/\ MeasureStep
         /\ isLow(battery) /\ isLow(battery')
         /\ Elapsed(PowerMillis, battery.lastWarningTime)
              >= LowWarningIntervalMs)
        => powerDid'.lowWarning]_vars
  /\ [][(/\ MeasureStep
         /\ isCurrentHigh(battery) /\ isCurrentHigh(battery')
         /\ Elapsed(PowerMillis, battery.lastCurrentWarningTime)
              >= CurrentWarningIntervalMs)
        => powerDid'.currentWarning]_vars

(***************************************************************************)
(* LogHandler                                                              *)
(***************************************************************************)
MaxLogCalls == 3
\* the length of a formatted log line
LogLineLen == 100

\* the calls of the logging interface as (level, category): debug, info,
\* warning, error and logCrash, logBattery of a low and of a critical
\* battery, logBootStep of a success, logConnection of a timeout; logf gives
\* the pairs of debug, info, warning and error
LogCallKinds ==
  {<<LOG_DEBUG, "GENERAL">>, <<LOG_INFO, "GENERAL">>,
   <<LOG_WARNING, "GENERAL">>, <<LOG_ERROR, "ERROR">>,
   <<LOG_WARNING, "BATTERY">>, <<LOG_ERROR, "BATTERY">>,
   <<LOG_INFO, "BOOT">>, <<LOG_WARNING, "CONNECTION">>}

categoryToFilename(category) ==
  CASE category = "BATTERY" -> "battery.log"
    [] category = "BOOT" -> "boot.log"
    [] category = "CONNECTION" -> "connection.log"
    [] category = "ERROR" -> "error.log"
    [] OTHER -> "error.log"

fileExists(fs, i) == fs[i] # NoFile

\* an id no file of this name carries
FreshId(fs) ==
  1 + CHOOSE m \in {fs[i].id : i \in Suffixes} :
        \A i \in Suffixes : fs[i].id <= m

\* appendFile: the line goes to the end; a missing file is created
appendFile(fs, len) ==
  IF fileExists(fs, 0)
  THEN [fs EXCEPT ![0].size = @ + len]
  ELSE [fs EXCEPT ![0] = [size |-> len, id |-> FreshId(fs)]]

\* renameFile(old, new) on a pair [files, overwrote]: the flag remembers a
\* rename onto a name that was still in use
renameFile(r, i, j) ==
  [files |-> [r.files EXCEPT ![j] = r.files[i], ![i] = NoFile],
   overwrote |-> r.overwrote \/ fileExists(r.files, j)]

\* a faulty variant: the oldest rotated file is left in place
DeleteOldestSkipped(r) == r

\* the oldest rotated file is deleted when it exists
DeleteOldest(r) == [r EXCEPT !.files[LOG_ROTATION_KEEP] = NoFile]

\* for (i = from; i >= 1; i--) rename file.i to file.(i+1) when it exists
RECURSIVE ShiftRotated(_, _)
ShiftRotated(r, i) ==
  IF i < 1 THEN r
  ELSE ShiftRotated(IF fileExists(r.files, i) THEN renameFile(r, i, i + 1)
                    ELSE r, i - 1)

\* the file has to be rotated before the next line
RotationDue(fs) == fileExists(fs, 0) /\ fs[0].size >= LOG_MAX_FILE_SIZE

\* rotateLogIfNeeded: [files, overwrote] afterwards
rotateLogIfNeeded(fs) ==
  LET r == [files |-> fs, overwrote |-> FALSE]
  IN IF RotationDue(fs)
     THEN renameFile(ShiftRotated(DeleteOldest(r), LOG_ROTATION_KEEP - 1), 0, 1)
     ELSE r

\* outputToSD: rotation, then the line is appended
outputToSD(fs, len) ==
  LET r == rotateLogIfNeeded(fs)
  IN [r EXCEPT !.files = appendFile(r.files, len)]

\* a faulty variant: the mutex is kept
GiveKeeps(l) == l

\* xSemaphoreGive(mutex)
Give(l) == [l EXCEPT !.mutex = "free"]

LogStep(t, op) ==
  [NoLogCall EXCEPT !.task = t, !.op = op,
                    !.level = logTasks[t].level,
                    !.category = logTasks[t].category]

\* log(level, category, ...): a message below minLevel is ignored, the others
\* go for the mutex
LogCall(t) ==
  /\ logTasks[t].pc = "idle"
  /\ logCalls < MaxLogCalls
  /\ logCalls' = logCalls + 1
  /\ \E c \in LogCallKinds :
       IF c[1] < logger.minLevel
       THEN /\ logTasks' = logTasks
            /\ logDid' = [NoLogCall EXCEPT !.task = t, !.op = "filtered",
                                           !.level = c[1], !.category = c[2]]
       ELSE /\ logTasks' = [logTasks EXCEPT ![t] =
                              [pc |-> "take", level |-> c[1], category |-> c[2]]]
            /\ logDid' = [NoLogCall EXCEPT !.task = t, !.op = "call",
                                           !.level = c[1], !.category = c[2]]
  /\ UNCHANGED <<logger, logFiles>>
  /\ UNCHANGED <<ctrlVars, now, loopVars, codecVars, bootVars, motorVars,
                 cfgVars, powerVars>>

\* xSemaphoreTake(mutex, 100 ms) succeeds
LogTake(t) ==
  /\ logTasks[t].pc \in {"take", "clearTake"}
  /\ logger.mutex = "free"
  /\ logger' = [logger EXCEPT !.mutex = t]
  /\ logTasks' = [logTasks EXCEPT ![t].pc =
                    IF @ = "take" THEN "locked" ELSE "clearLocked"]
  /\ logDid' = LogStep(t, "take")
  /\ UNCHANGED <<logFiles, logCalls>>
  /\ UNCHANGED <<ctrlVars, now, loopVars, codecVars, bootVars, motorVars,
                 cfgVars, powerVars>>

\* the take times out while another task holds the mutex: log() reports the
\* failure and returns, clearAllLogs() returns
LogTakeTimeout(t) ==
  /\ logTasks[t].pc \in {"take", "clearTake"}
  /\ logger.mutex # "free"
  /\ logTasks' = [logTasks EXCEPT ![t] = IdleTask]
  /\ logDid' = LogStep(t, "dropped")
  /\ UNCHANGED <<logger, logFiles, logCalls>>
  /\ UNCHANGED <<ctrlVars, now, loopVars, codecVars, bootVars, motorVars,
                 cfgVars, powerVars>>

\* log() under the mutex: serial output, the line to the SD card when there
\* is one, give
LogLocked(t) ==
  /\ logTasks[t].pc = "locked"
  /\ LET f == categoryToFilename(logTasks[t].category)
         r == outputToSD(logFiles[f], LogLineLen)
     IN IF logger.sd
        THEN /\ logFiles' = [logFiles EXCEPT ![f] = r.files]
             /\ logDid' = [LogStep(t, "written") EXCEPT
                             !.file = f,
                             !.rotated = RotationDue(logFiles[f]),
                             !.overwrote = r.overwrote]
        ELSE /\ logFiles' = logFiles
             /\ logDid' = LogStep(t, "serial")
  /\ logger' = Give(logger)
  /\ logTasks' = [logTasks EXCEPT ![t] = IdleTask]
  /\ UNCHANGED logCalls
  /\ UNCHANGED <<ctrlVars, now, loopVars, codecVars, bootVars, motorVars,
                 cfgVars, powerVars>>

\* clearAllLogs(): nothing without a card, else it goes for the mutex
ClearCall(t) ==
  /\ logTasks[t].pc = "idle"
  /\ logCalls < MaxLogCalls
  /\ logCalls' = logCalls + 1
  /\ IF logger.sd
     THEN /\ logTasks' = [logTasks EXCEPT ![t] = [IdleTask EXCEPT
                                                   !.pc = "clearTake"]]
          /\ logDid' = [NoLogCall EXCEPT !.task = t, !.op = "clearCall"]
     ELSE /\ logTasks' = logTasks
          /\ logDid' = [NoLogCall EXCEPT !.task = t, !.op = "clearNoCard"]
  /\ UNCHANGED <<logger, logFiles>>
  /\ UNCHANGED <<ctrlVars, now, loopVars, codecVars, bootVars, motorVars,
                 cfgVars, powerVars>>

\* clearAllLogs() under the mutex: the four files and their rotated files
\* 1..LOG_ROTATION_KEEP are deleted, give
ClearLocked(t) ==
  /\ logTasks[t].pc = "clearLocked"
  /\ logFiles' = [f \in LogFileNames |->
                    [i \in Suffixes |->
                       IF i <= LOG_ROTATION_KEEP THEN NoFile
                       ELSE logFiles[f][i]]]
  /\ logger' = Give(logger)
  /\ logTasks' = [logTasks EXCEPT ![t] = IdleTask]
  /\ logDid' = LogStep(t, "cleared")
  /\ UNCHANGED logCalls
  /\ UNCHANGED <<ctrlVars, now, loopVars, codecVars, bootVars, motorVars,
                 cfgVars, powerVars>>

\* a log file in use for long: one line short of full, k rotated files
UsedFile(k) ==
  [i \in Suffixes |->
     IF i = 0 THEN [size |-> LOG_MAX_FILE_SIZE - LogLineLen, id |-> k + 1]
     ELSE IF i <= k THEN [size |-> LOG_MAX_FILE_SIZE, id |-> k + 1 - i]
     ELSE NoFile]

\* the logger with or without a card, with DEBUG or WARNING as its minimum
\* level; error.log and battery.log fresh or long in use
InitLog ==
  /\ rev = "part_005"
  /\ espnowPeerMac = ESPNOW_PEER_MAC
  /\ now = 0
  /\ ControllerInit
  /\ GlobalsInit
  /\ PacketInit
  /\ BootReady
  /\ MotorInit
  /\ ConfigInit
  /\ PowerInit
  /\ \E sd \in BOOLEAN, minLevel \in {LOG_DEBUG, LOG_WARNING} :
       logger = [minLevel |-> minLevel, sd |-> sd, mutex |-> "free"]
  /\ \E e \in {[i \in Suffixes |-> NoFile]}
               \cup {UsedFile(k) : k \in 0..LOG_ROTATION_KEEP},
        b \in {[i \in Suffixes |-> NoFile], UsedFile(LOG_ROTATION_KEEP)} :
       logFiles = [f \in LogFileNames |->
                     IF f = "error.log" THEN e
                     ELSE IF f = "battery.log" THEN b
                     ELSE [i \in Suffixes |-> NoFile]]
  /\ logTasks = [t \in LogTasks |-> IdleTask]
  /\ logDid = NoLogCall
  /\ logCalls = 0

\* the part of a call under the mutex
LogSection == \E t \in LogTasks : LogLocked(t) \/ ClearLocked(t)

NextLog ==
  \/ \E t \in LogTasks : LogCall(t)
  \/ \E t \in LogTasks : LogTake(t)
  \/ \E t \in LogTasks : LogTakeTimeout(t)
  \/ \E t \in LogTasks : LogLocked(t)
  \/ \E t \in LogTasks : ClearCall(t)
  \/ \E t \in LogTasks : ClearLocked(t)

\* tasks log and clear concurrently
SpecLog == InitLog /\ [][NextLog]_vars

\* every message passes the level filter and error.log is full but for a line
InitLogTasks ==
  /\ InitLog
  /\ logger.minLevel = LOG_DEBUG
  /\ logFiles["error.log"] = UsedFile(LOG_ROTATION_KEEP)
  /\ logFiles["battery.log"] = [i \in Suffixes |-> NoFile]

\* the same tasks, and a task that holds the mutex runs on
SpecLogTasks == InitLogTasks /\ [][NextLog]_vars /\ WF_vars(LogSection)

\* C34: with an SD card, a call appends its line to error.log only when its
\* level is LOG_ERROR, and a message below the minimum level changes no file.
C34_ErrorLogOnlyErrors ==
  [][/\ (/\ logDid'.op = "written"
         /\ logFiles'["error.log"] # logFiles["error.log"])
          => logDid'.level = LOG_ERROR
     /\ logDid'.op = "filtered" => logFiles' = logFiles]_vars

\* a line was written to a file that had reached LOG_MAX_FILE_SIZE
RotationStep ==
  /\ logDid'.op = "written"
  /\ RotationDue(logFiles[logDid'.file])

InSection(t) == logTasks[t].pc \in {"locked", "clearLocked"}

\* C36: at most one task is inside the output, rotation and delete section,
\* the mutex is held exactly by the task inside it, every successful take is
\* followed by a give, and a take that times out drops the message: it writes
\* nothing and leaves the mutex alone.
C36_ThreadSafe ==
  /\ [](/\ Cardinality({t \in LogTasks : InSection(t)}) <= 1
        /\ \A t \in LogTasks : InSection(t) <=> logger.mutex = t)
  /\ \A t \in LogTasks : (logger.mutex = t) ~> (logger.mutex # t)
  /\ [][/\ logDid'.op = "dropped" =>
             /\ logFiles' = logFiles
             /\ logger' = logger
             /\ logTasks'[logDid'.task].pc = "idle"
        /\ logFiles' # logFiles => logger.mutex = logDid'.task]_vars

\* one task holds the mutex and the message of the other one was just dropped
C36_Witness ==
  /\ logDid.op = "dropped"
  /\ \E t \in LogTasks \ {logDid.task} : InSection(t) /\ logger.mutex = t
  /\ logTasks[logDid.task].pc = "idle"

(***************************************************************************)
(* UserConfig                                                              *)
(***************************************************************************)
\* the string a buffer holds: the characters before the first NUL
CString(buf) ==
  LET end == CHOOSE i \in 1..(Len(buf) + 1) :
               /\ i <= Len(buf) => buf[i] = NUL
               /\ \A j \in 1..(i - 1) : buf[j] # NUL
  IN SubSeq(buf, 1, end - 1)

\* arguments of setEspnowPeerMac: null (a value that is no string), a short
\* string, an address, a string longer than the buffer
NullMac == <<"nullptr">>
LongMac == ESPNOW_PEER_MAC \o <<":", "F", "F">>
MacInputs == {NullMac, BadConfigMac, ESPNOW_PEER_MAC, LongMac}

\* arguments of setEspnowChannel (uint8_t), in and out of the range 0..14
ChannelInputs == {0, 6, 14, 200}

\* config files: one that is no JSON, and files with values in and out of
\* range
StoredFiles ==
  {BadConfigFile} \cup
  [kind : {"json"}, espnowChannel : {6, 200},
   espnowPeerMac : {BadConfigMac, LongMac}, autoShutdownEnabled : {TRUE}]

\* ConfigManager::validate(scheme): a value outside its range is replaced by
\* its default
validate(c) ==
  IF c.espnowChannel \in 0..14 THEN c
  ELSE [c EXCEPT !.espnowChannel = ConfigDefaults.espnowChannel]

\* ConfigManager::deserializeFromJson(content, scheme): the items of the file
\* are stored, a string cut to maxLength - 1 characters
deserializeFromJson(c, file) ==
  [espnowChannel |-> file.espnowChannel,
   espnowPeerMac |-> CopyMac(c.espnowPeerMac, file.espnowPeerMac),
   autoShutdownEnabled |-> file.autoShutdownEnabled]

\* ConfigManager::serializeToJson(content, scheme)
serializeToJson(c) ==
  [kind |-> "json",
   espnowChannel |-> c.espnowChannel,
   espnowPeerMac |-> CString(c.espnowPeerMac),
   autoShutdownEnabled |-> c.autoShutdownEnabled]

\* reset(): loadDefaults(scheme), setDirty(true)
reset(u) == [config |-> ConfigDefaults, dirty |-> TRUE]

\* setEspnowPeerMac(mac)
setEspnowPeerMac(u, mac) ==
  IF mac # NullMac
  THEN [u EXCEPT !.config.espnowPeerMac = CopyMac(@, mac), !.dirty = TRUE]
  ELSE u

ConfigRest ==
  /\ UNCHANGED <<ctrlVars, now, loopVars, codecVars, bootVars, motorVars,
                 powerVars, logVars>>

\* a config file is put on the card, or the card is taken out
ConfigFileChanged ==
  /\ \E file \in StoredFiles \cup {NoConfigFile} : configStorage' = file
  /\ configStorage' # configStorage
  /\ configDid' = [op |-> "file", result |-> TRUE]
  /\ UNCHANGED userConfig
  /\ ConfigRest

\* load()
ConfigLoad ==
  /\ \E readable \in BOOLEAN :
       IF configStorage = NoConfigFile \/ ~readable
       THEN /\ userConfig' = reset(userConfig)
            /\ configDid' = [op |-> "loadNoFile", result |-> FALSE]
       ELSE IF configStorage = BadConfigFile
       THEN /\ userConfig' = userConfig
            /\ configDid' = [op |-> "loadBadJson", result |-> FALSE]
       ELSE /\ userConfig' =
                 [config |-> validate(deserializeFromJson(userConfig.config,
                                                          configStorage)),
                  dirty |-> FALSE]
            /\ configDid' = [op |-> "load", result |-> TRUE]
  /\ UNCHANGED configStorage
  /\ ConfigRest

\* save(): validate, serialize, store; the validation of the base class may
\* or may not mark a corrected configuration as changed
ConfigSave ==
  /\ \E serialized \in BOOLEAN, stored \in BOOLEAN, marks \in BOOLEAN :
       LET c == validate(userConfig.config)
           d == userConfig.dirty \/ (marks /\ c # userConfig.config)
       IN IF serialized /\ stored
          THEN /\ userConfig' = [config |-> c, dirty |-> FALSE]
               /\ configStorage' = serializeToJson(c)
               /\ configDid' = [op |-> "save", result |-> TRUE]
          ELSE /\ userConfig' = [config |-> c, dirty |-> d]
               /\ configStorage' = configStorage
               /\ configDid' = [op |-> "saveFailed", result |-> FALSE]
  /\ ConfigRest

\* reset()
ConfigReset ==
  /\ userConfig' = reset(userConfig)
  /\ configDid' = [op |-> "reset", result |-> TRUE]
  /\ UNCHANGED configStorage
  /\ ConfigRest

\* setEspnowChannel(value)
SetEspnowChannel ==
  /\ \E value \in ChannelInputs :
       userConfig' = [userConfig EXCEPT !.config.espnowChannel = value,
                                        !.dirty = TRUE]
  /\ configDid' = [op |-> "setEspnowChannel", result |-> TRUE]
  /\ UNCHANGED configStorage
  /\ ConfigRest

\* setEspnowPeerMac(mac)
SetEspnowPeerMac ==
  /\ \E mac \in MacInputs :
       /\ userConfig' = setEspnowPeerMac(userConfig, mac)
       /\ configDid' = [op |-> IF mac = NullMac THEN "setEspnowPeerMacNull"
                               ELSE "setEspnowPeerMac",
                        result |-> TRUE]
  /\ UNCHANGED configStorage
  /\ ConfigRest

NextConfig ==
  \/ ConfigFileChanged
  \/ ConfigLoad
  \/ ConfigSave
  \/ ConfigReset
  \/ SetEspnowChannel
  \/ SetEspnowPeerMac
  \/ SetAutoShutdownEnabled

SpecConfig == InitPower /\ [][NextConfig]_vars

=============================================================================
